---- MODULE Spec2Model ----
(***************************************************************************)
(* Storage layer and in-memory index of the engineering-standards server.  *)
(*                                                                         *)
(* Strings are modelled as sequences of pieces.  A piece is either an      *)
(* alphanumeric word ("api", "backend", "md") or a single separator        *)
(* character ("-", ".", "/", "\\", " ", "_").  Words are never adjacent,   *)
(* so a string has exactly one such sequence, and every string operation   *)
(* of the code that cuts at separators (split('-'), startsWith(prefix),    *)
(* endsWith(suffix), basename, the sanitizing regexes) is computed         *)
(* exactly.                                                                *)
(***************************************************************************)
EXTENDS Integers, Sequences, FiniteSets, TLC

\* ---------------------------------------------------------------- bounds
\* Number of instants the clock goes through in one behaviour; every call
\* starts at an instant of its own.
MaxCalls == 2
\* Number of files the directory holds before a further create is started.
MaxFiles == 3

\* ------------------------------------------------------- string helpers
Separators == {"-", ".", "/", "\\", " ", "_"}

Take(s, n) == SubSeq(s, 1, n)

Drop(s, n) == SubSeq(s, n + 1, Len(s))

StartsWith(s, pre) == Len(s) >= Len(pre) /\ Take(s, Len(pre)) = pre

EndsWith(s, suf) == Len(s) >= Len(suf) /\ Drop(s, Len(s) - Len(suf)) = suf

\* String.prototype.includes: t occurs in s as a contiguous run.
Includes(s, t) == \E i \in 0..(Len(s) - Len(t)) : SubSeq(s, i + 1, i + Len(t)) = t

LowerWord(c) ==
  CASE c = "API" -> "api"
    [] c = "MD" -> "md"
    [] c = "Standards" -> "standards"
    [] c = "REST" -> "rest"
    [] OTHER -> c

toLowerCase(s) == [i \in 1..Len(s) |-> LowerWord(s[i])]

\* The characters of a metadata value (an enum member, a tag).
Chars(v) ==
  CASE v = "tech-stack" -> <<"tech", "-", "stack">>
    [] v = "technical-stack" -> <<"technical", "-", "stack">>
    [] OTHER -> <<v>>

MARKDOWN_EXTENSION == <<".", "md">>

\* s.split('-'): the maximal hyphen-free runs, empty runs included.
RECURSIVE SplitHyphen(_)
SplitHyphen(s) ==
  IF \A i \in 1..Len(s) : s[i] # "-"
  THEN <<s>>
  ELSE LET k == CHOOSE i \in 1..Len(s) : s[i] = "-" /\ \A j \in 1..(i - 1) : s[j] # "-"
       IN  <<Take(s, k - 1)>> \o SplitHyphen(Drop(s, k))

\* parts.join('-')
RECURSIVE JoinHyphen(_)
JoinHyphen(parts) ==
  IF Len(parts) = 0 THEN <<>>
  ELSE IF Len(parts) = 1 THEN parts[1]
  ELSE parts[1] \o <<"-">> \o JoinHyphen(Tail(parts))

\* p.replace(/^[/\\]?standards[/\\]/i, '')
StripStandardsPrefix(p) ==
  IF Len(p) >= 2 /\ LowerWord(p[1]) = "standards" /\ p[2] \in {"/", "\\"}
    THEN Drop(p, 2)
  ELSE IF Len(p) >= 3 /\ p[1] \in {"/", "\\"} /\ LowerWord(p[2]) = "standards"
          /\ p[3] \in {"/", "\\"}
    THEN Drop(p, 3)
  ELSE p

\* path.basename (POSIX): trailing slashes dropped, then what follows the last slash.
RECURSIVE Basename(_)
Basename(p) ==
  IF Len(p) > 0 /\ p[Len(p)] = "/" THEN Basename(Take(p, Len(p) - 1))
  ELSE IF \A i \in 1..Len(p) : p[i] # "/" THEN p
  ELSE LET k == CHOOSE i \in 1..Len(p) : p[i] = "/" /\ \A j \in (i + 1)..Len(p) : p[j] # "/"
       IN  Drop(p, k)

\* s.replace(/\.[^.]+$/, ''): drop a final extension.
RemoveExtension(s) ==
  IF \E i \in 1..(Len(s) - 1) : s[i] = "."
  THEN LET k == CHOOSE i \in 1..Len(s) : s[i] = "." /\ \A j \in (i + 1)..Len(s) : s[j] # "."
       IN  IF k < Len(s) THEN Take(s, k - 1) ELSE s
  ELSE s

\* .replace(/[^a-z0-9]+/g, '-').replace(/-+/g, '-'): every maximal run of
\* separators becomes one hyphen.
RECURSIVE CollapseSeparators(_)
CollapseSeparators(s) ==
  IF Len(s) = 0 THEN <<>>
  ELSE IF s[1] \in Separators
  THEN IF Len(s) >= 2 /\ s[2] \in Separators
       THEN CollapseSeparators(Tail(s))
       ELSE <<"-">> \o CollapseSeparators(Tail(s))
  ELSE <<s[1]>> \o CollapseSeparators(Tail(s))

\* .replace(/^-|-$/g, '')
TrimLeadingHyphen(s) == IF Len(s) > 0 /\ s[1] = "-" THEN Tail(s) ELSE s

TrimTrailingHyphen(s) == IF Len(s) > 0 /\ s[Len(s)] = "-" THEN Take(s, Len(s) - 1) ELSE s

TrimHyphens(s) == TrimTrailingHyphen(TrimLeadingHyphen(s))

\* if (s.startsWith(pre)) s = s.slice(pre.length)
StripPrefix(s, pre) == IF StartsWith(s, pre) THEN Drop(s, Len(pre)) ELSE s

\* if (s.endsWith(suf)) s = s.slice(0, -suf.length)
StripSuffix(s, suf) == IF EndsWith(s, suf) THEN Take(s, Len(s) - Len(suf)) ELSE s

\* if (base.toLowerCase().endsWith('.md')) base = base.slice(0, -3)
StripMarkdownExtension(base) ==
  IF EndsWith(toLowerCase(base), MARKDOWN_EXTENSION)
  THEN Take(base, Len(base) - Len(MARKDOWN_EXTENSION))
  ELSE base

sanitizeFilename(filename) ==
  TrimHyphens(CollapseSeparators(toLowerCase(
    StripMarkdownExtension(Basename(StripStandardsPrefix(filename))))))
  \o MARKDOWN_EXTENSION

generateDefaultFilename(metadata) ==
  IF Len(metadata.tags) > 0 THEN sanitizeFilename(Chars(metadata.tags[1]))
  ELSE IF metadata.tier # "" THEN sanitizeFilename(Chars(metadata.tier))
  ELSE sanitizeFilename(Chars(metadata.type))

\* prefixParts.join('-') + '-'
NamePrefix(metadata) ==
  toLowerCase(Chars(metadata.type)) \o <<"-">> \o toLowerCase(Chars(metadata.tier))
    \o <<"-">> \o toLowerCase(Chars(metadata.process)) \o <<"-">>

\* `-${metadata.status.toLowerCase()}`
NameSuffix(metadata) == <<"-">> \o toLowerCase(Chars(metadata.status))

\* The title a name is built around: the sanitized filename when one is
\* given (the empty string stands for an absent, equally falsy, filename),
\* the default otherwise.
sanitizedTitle(metadata, filename) ==
  IF filename # <<>> THEN sanitizeFilename(filename) ELSE generateDefaultFilename(metadata)

generateFilePath(metadata, filename) ==
  NamePrefix(metadata)
    \o StripSuffix(StripPrefix(toLowerCase(StripSuffix(sanitizedTitle(metadata, filename),
                                                       MARKDOWN_EXTENSION)),
                               NamePrefix(metadata)),
                   NameSuffix(metadata))
    \o NameSuffix(metadata) \o MARKDOWN_EXTENSION

\* extractTitleBaseFromFilename once the name is split.
titleBaseOfParts(parts, basename, status) ==
  IF Len(parts) >= 5 /\ parts[Len(parts)] = <<status>>
    THEN JoinHyphen(SubSeq(parts, 4, Len(parts) - 1))
  ELSE IF Len(parts) >= 5 /\ parts[4] = <<status>>
    THEN JoinHyphen(SubSeq(parts, 5, Len(parts)))
  ELSE IF Len(parts) > 3 THEN JoinHyphen(SubSeq(parts, 4, Len(parts)))
  ELSE basename

extractTitleBaseFromFilename(basename, metadata) ==
  titleBaseOfParts(SplitHyphen(basename), basename, metadata.status)

\* ------------------------------------------------- parser and validator
NoContent == "<undefined>"

NoStandard == [path |-> <<>>, metadata |-> <<>>, content |-> NoContent]

Malformed == [kind |-> "malformed"]

\* serializeStandard: the stored text carries the metadata block and the body.
serializeStandard(standard) ==
  [kind |-> "doc", metadata |-> standard.metadata, content |-> standard.content]

\* parseStandard(raw, path)
parseStandard(raw, path) ==
  [path |-> path, metadata |-> raw.metadata, content |-> raw.content]

CanonicalTypes == {"principle", "standard", "practice", "tech-stack", "process"}

ValidTiers == {"frontend", "backend", "database", "infrastructure", "security"}

ValidProcesses == {"development", "testing", "delivery", "operations"}

ValidStatuses == {"active", "draft", "deprecated"}

normalizeTypeName(t) ==
  LET lower == LowerWord(t)
  IN  CASE lower = "standards" -> "standard"
        [] lower = "principles" -> "principle"
        [] lower = "practices" -> "practice"
        [] lower = "technical-stack" -> "tech-stack"
        [] OTHER -> lower

\* validateMetadata accepts exactly the metadata IsValidMetadata holds of ...
IsValidMetadata(m) ==
  /\ normalizeTypeName(m.type) \in CanonicalTypes
  /\ m.tier \in ValidTiers
  /\ m.process \in ValidProcesses
  /\ m.status \in ValidStatuses
  /\ Len(m.tags) > 0
  /\ \A i \in 1..Len(m.tags) : m.tags[i] # ""
  /\ Len(m.version) = 3
  /\ \A i \in 1..3 : m.version[i] >= 0

\* ... and returns them with the type in its canonical spelling.
validateMetadata(m) == [m EXCEPT !.type = normalizeTypeName(m.type)]

generateInitialVersion == <<1, 0, 0>>

bumpVersion(v, kind) ==
  CASE kind = "major" -> <<v[1] + 1, 0, 0>>
    [] kind = "minor" -> <<v[1], v[2] + 1, 0>>
    [] OTHER -> <<v[1], v[2], v[3] + 1>>

VersionLess(a, b) ==
  \/ a[1] < b[1]
  \/ a[1] = b[1] /\ a[2] < b[2]
  \/ a[1] = b[1] /\ a[2] = b[2] /\ a[3] < b[3]

\* validateMetadataUpdate(existing, partial) passes unless the patch changes
\* `created` or lowers the version.
MetadataUpdateAllowed(existing, patch) ==
  /\ "created" \in DOMAIN patch => patch.created = existing.created
  /\ "version" \in DOMAIN patch => ~VersionLess(patch.version, existing.version)

\* { ...existing, ...patch }
MergeMetadata(existing, patch) ==
  [k \in DOMAIN existing \cup DOMAIN patch |->
     IF k \in DOMAIN patch THEN patch[k] ELSE existing[k]]

\* --------------------------------------------------------- file system
\* The standards directory, as an absolute path.
STANDARDS_DIR == <<"/", "srv", "/", "standards">>

\* path.isAbsolute (POSIX)
isAbsolute(p) == Len(p) > 0 /\ p[1] = "/"

\* The segments of a path: the non-empty runs between slashes.
RECURSIVE SplitSlash(_)
SplitSlash(s) ==
  IF s = <<>> THEN <<>>
  ELSE IF s[1] = "/" THEN SplitSlash(Tail(s))
  ELSE IF \A i \in 1..Len(s) : s[i] # "/" THEN <<s>>
  ELSE <<Take(s, (CHOOSE i \in 1..Len(s) : s[i] = "/" /\ \A j \in 1..(i - 1) : s[j] # "/") - 1)>>
       \o SplitSlash(Drop(s, CHOOSE i \in 1..Len(s) :
                                 s[i] = "/" /\ \A j \in 1..(i - 1) : s[j] # "/"))

\* segments.join('/')
RECURSIVE JoinSlash(_)
JoinSlash(segments) ==
  IF Len(segments) = 0 THEN <<>>
  ELSE IF Len(segments) = 1 THEN segments[1]
  ELSE segments[1] \o <<"/">> \o JoinSlash(Tail(segments))

\* How many leading segments two paths share.
RECURSIVE CommonSegments(_, _)
CommonSegments(a, b) ==
  IF a # <<>> /\ b # <<>> /\ Head(a) = Head(b) THEN 1 + CommonSegments(Tail(a), Tail(b))
  ELSE 0

\* n times '..'
ParentSegments(n) == [i \in 1..n |-> <<".", ".">>]

relativeOfSegments(from, to, shared) ==
  JoinSlash(ParentSegments(Len(from) - shared) \o SubSeq(to, shared + 1, Len(to)))

\* path.relative(from, to) for absolute paths
pathRelative(from, to) ==
  relativeOfSegments(SplitSlash(from), SplitSlash(to),
                     CommonSegments(SplitSlash(from), SplitSlash(to)))

normalizeTargetPath(p) ==
  IF p = <<>> THEN p
  ELSE IF isAbsolute(p) THEN pathRelative(STANDARDS_DIR, p)
  ELSE StripStandardsPrefix(p)

FileExists(files, p) == p \in DOMAIN files

\* Fault: an existing file is left as it is (the flag 'wx' without its error).
WriteFile_keepsExisting(files, p, raw) ==
  [q \in DOMAIN files \cup {p} |-> IF q \in DOMAIN files THEN files[q] ELSE raw]

\* fs.writeFile
WriteFile(files, p, raw) == [q \in DOMAIN files \cup {p} |-> IF q = p THEN raw ELSE files[q]]

\* Fault: the entry is copied to the target and the source stays.
RenameFile_copies(files, old, new) == WriteFile(files, new, files[old])

\* fs.rename: the entry moves, replacing whatever the target held.
RenameFile(files, old, new) ==
  [q \in (DOMAIN files \ {old}) \cup {new} |-> IF q = new THEN files[old] ELSE files[q]]

\* fs.unlink
UnlinkFile(files, p) == [q \in DOMAIN files \ {p} |-> files[q]]

\* The orders in which glob may enumerate the directory.
Orderings(S) ==
  {f \in [1..Cardinality(S) -> S] : \A i, j \in 1..Cardinality(S) : i # j => f[i] # f[j]}

\* readAllStandards run on an unchanging directory, in enumeration order `order`.
RECURSIVE ReadAllIn(_, _)
ReadAllIn(files, order) ==
  IF order = <<>> THEN <<>>
  ELSE LET f == Head(order)
       IN  (IF FileExists(files, f) /\ files[f].kind = "doc"
            THEN <<parseStandard(files[f], f)>> ELSE <<>>)
           \o ReadAllIn(files, Tail(order))

\* ------------------------------------------------------- index engine
normalizeIndexPath(p) == IF p = <<>> THEN p ELSE StripStandardsPrefix(p)

\* s.replace(/^.*[/\\]/, ''): what follows the last slash or backslash.
StripDirectories(s) ==
  IF \A i \in 1..Len(s) : s[i] \notin {"/", "\\"} THEN s
  ELSE Drop(s, CHOOSE i \in 1..Len(s) :
                 s[i] \in {"/", "\\"} /\ \A j \in (i + 1)..Len(s) : s[j] \notin {"/", "\\"})

\* s.replace(/^.*[/\\]/, '').replace(/\.md$/i, '').toLowerCase()
BaseName(s) == toLowerCase(StripMarkdownExtension(StripDirectories(s)))

\* Array.prototype.find with its undefined
FirstWhere(snapshot, hits) ==
  IF hits = {} THEN NoStandard
  ELSE snapshot[CHOOSE i \in hits : \A j \in hits : i <= j]

\* The second probe of findByPath: base names equal, or the stored one
\* containing the requested one.
findByBase(snapshot, normalizedBase) ==
  FirstWhere(snapshot,
    {i \in 1..Len(snapshot) :
       \/ BaseName(snapshot[i].path) = normalizedBase
       \/ Includes(BaseName(snapshot[i].path), normalizedBase)})

\* Fault: the stored paths are not compared, only the base names.
findByPath_skipsExactMatch(snapshot, path) ==
  IF normalizeIndexPath(path) = <<>> THEN NoStandard
  ELSE findByBase(snapshot, BaseName(normalizeIndexPath(path)))

findByPath(snapshot, path) ==
  IF normalizeIndexPath(path) = <<>> THEN NoStandard
  ELSE IF \E i \in 1..Len(snapshot) : snapshot[i].path = normalizeIndexPath(path)
    THEN FirstWhere(snapshot,
           {i \in 1..Len(snapshot) : snapshot[i].path = normalizeIndexPath(path)})
  ELSE findByBase(snapshot, BaseName(normalizeIndexPath(path)))

\* options.k is given and truthy
Present(options, k) ==
  /\ k \in DOMAIN options
  /\ IF k = "tags" THEN Len(options[k]) > 0 ELSE options[k] # ""

\* standard.metadata.tags.includes(tag)
hasTag(standard, tag) ==
  \E j \in 1..Len(standard.metadata.tags) : standard.metadata.tags[j] = tag

\* The callback of filter: false at the first criterion that is given and differs.
matchesOptions(standard, options) ==
  /\ Present(options, "type") =>
       normalizeTypeName(standard.metadata.type) = normalizeTypeName(options.type)
  /\ Present(options, "tier") => standard.metadata.tier = options.tier
  /\ Present(options, "process") => standard.metadata.process = options.process
  /\ Present(options, "status") => standard.metadata.status = options.status
  /\ Present(options, "tags") =>
       \A j \in 1..Len(options.tags) : hasTag(standard, options.tags[j])

\* Fault: one requested tag is enough (some() for every()).
filter_anyTag(snapshot, options) ==
  SelectSeq(snapshot,
    LAMBDA standard :
      /\ matchesOptions(standard, [k \in DOMAIN options \ {"tags"} |-> options[k]])
      /\ Present(options, "tags") =>
           \E j \in 1..Len(options.tags) : hasTag(standard, options.tags[j]))

\* StandardsIndex.filter
filter(snapshot, options) ==
  SelectSeq(snapshot, LAMBDA standard : matchesOptions(standard, options))

\* [...].join(' ')
RECURSIVE JoinSpace(_)
JoinSpace(values) ==
  IF Len(values) = 0 THEN <<>>
  ELSE IF Len(values) = 1 THEN Chars(values[1])
  ELSE Chars(values[1]) \o <<" ">> \o JoinSpace(Tail(values))

\* The metadata text search looks into, lowercased.
metadataText(standard) ==
  toLowerCase(JoinSpace(<<standard.metadata.type, standard.metadata.tier,
                          standard.metadata.process>>
                        \o standard.metadata.tags \o <<standard.metadata.author>>))

\* Where the indexOf loop finds the query in the body, counted from 0 in
\* pieces of text: every position at which it occurs, overlapping ones included.
occurrences(contentLower, queryLower) ==
  {i \in 0..(Len(contentLower) - Len(queryLower)) :
     SubSeq(contentLower, i + 1, i + Len(queryLower)) = queryLower}

\* The set in ascending order.
RECURSIVE Ascending(_)
Ascending(S) ==
  IF S = {} THEN <<>>
  ELSE <<CHOOSE i \in S : \A j \in S : i <= j>>
       \o Ascending(S \ {CHOOSE i \in S : \A j \in S : i <= j})

\* Fault: the metadata bonus is added once per field holding the query.
scoreOf_perField(standard, queryLower) ==
  Cardinality(occurrences(toLowerCase(standard.content), queryLower))
  + 2 * Cardinality({k \in {"type", "tier", "process", "author"} :
                       Includes(toLowerCase(Chars(standard.metadata[k])), queryLower)})
  + 2 * Cardinality({j \in 1..Len(standard.metadata.tags) :
                       Includes(toLowerCase(Chars(standard.metadata.tags[j])), queryLower)})
  + (IF Includes(toLowerCase(standard.path), queryLower) THEN 1 ELSE 0)

\* score: one per occurrence in the body, 2 for the metadata, 1 for the path.
scoreOf(standard, queryLower) ==
  Cardinality(occurrences(toLowerCase(standard.content), queryLower))
  + (IF Includes(metadataText(standard), queryLower) THEN 2 ELSE 0)
  + (IF Includes(toLowerCase(standard.path), queryLower) THEN 1 ELSE 0)

\* .slice(0, limit)
sliceTo(results, limit) == Take(results, IF limit < Len(results) THEN limit ELSE Len(results))

\* One entry of results; its snippets (extractContext) are left out, their
\* positions are kept.
searchResult(standard, queryLower) ==
  [standard |-> standard,
   matches |-> sliceTo(Ascending(occurrences(toLowerCase(standard.content), queryLower)), 3),
   score |-> scoreOf(standard, queryLower)]

\* The loop of search over the filtered documents: `results` before sorting.
RECURSIVE scoredResults(_, _)
scoredResults(filtered, queryLower) ==
  IF filtered = <<>> THEN <<>>
  ELSE (IF \/ occurrences(toLowerCase(Head(filtered).content), queryLower) # {}
           \/ scoreOf(Head(filtered), queryLower) > 0
        THEN <<searchResult(Head(filtered), queryLower)>> ELSE <<>>)
       \o scoredResults(Tail(filtered), queryLower)

\* One entry put in its place among entries already sorted: after every
\* entry whose score is not lower.
RECURSIVE insertByScore(_, _)
insertByScore(sorted, entry) ==
  IF sorted = <<>> THEN <<entry>>
  ELSE IF Head(sorted).score >= entry.score
    THEN <<Head(sorted)>> \o insertByScore(Tail(sorted), entry)
  ELSE <<entry>> \o sorted

\* results.sort((a, b) => b.score - a.score), a stable sort
RECURSIVE sortByScore(_)
sortByScore(results) ==
  IF results = <<>> THEN <<>>
  ELSE insertByScore(sortByScore(Take(results, Len(results) - 1)), results[Len(results)])

\* Fault: the list is cut to `limit` before it is sorted.
search_cutsBeforeSorting(snapshot, query, options, limit) ==
  sortByScore(sliceTo(scoredResults(filter(snapshot, options), toLowerCase(query)), limit))

\* StandardsIndex.search
search(snapshot, query, options, limit) ==
  sliceTo(sortByScore(scoredResults(filter(snapshot, options), toLowerCase(query))), limit)

\* { path, metadata } of a document
pathAndMetadata(standard) == [path |-> standard.path, metadata |-> standard.metadata]

\* Fault: documents are filed by type alone.
groupKey_byTypeAlone(standard) == <<standard.metadata.type, "", "">>

\* The key under which buildHierarchicalIndex files a document.
groupKey(standard) ==
  <<standard.metadata.type, standard.metadata.tier, standard.metadata.process>>

RECURSIVE entriesOf(_)
entriesOf(filtered) ==
  IF filtered = <<>> THEN <<>>
  ELSE <<pathAndMetadata(Head(filtered))>> \o entriesOf(Tail(filtered))

\* index[type][tier][process] for every group that has a document, as a
\* function of <<type, tier, process>>.
groupsOf(filtered) ==
  [key \in {groupKey(filtered[i]) : i \in 1..Len(filtered)} |->
     entriesOf(SelectSeq(filtered, LAMBDA standard : groupKey(standard) = key))]

\* StandardsIndex.buildHierarchicalIndex
buildHierarchicalIndex(snapshot, options) == groupsOf(filter(snapshot, options))

\* StandardsIndex.getMetadataList
getMetadataList(snapshot, options) == entriesOf(filter(snapshot, options))

\* getIndexStats: getCount() and getLastRefresh()
getIndexStats(snapshot, last) == [count |-> Len(snapshot), lastRefresh |-> last]

\* ------------------------------------------------------------- inputs
Procs == {1, 2}

TypeInputs == {"standard", "tech-stack"}

TierInputs == {"backend"}

ProcessInputs == {"development"}

StatusInputs == {"active", "draft"}

TagInputs == {<<"api">>, <<>>}

TitleInputs == {<<>>, <<"api", "-", "active", "-", "v2">>}

CreateContents == {"c1"}

UpdateContents == {NoContent, "c2"}

VersionBumps == {"patch"}

\* Metadata patches of an update: none, a new status, a new type.
PatchInputs ==
  {<<>>} \cup {[status |-> st] : st \in StatusInputs \cup {"deprecated"}}
         \cup {[type |-> "tech-stack"]}

\* --------------------------------------------------------------- state
VARIABLES
  fs,          \* the standards directory: file name -> stored text
  standards,   \* StandardsIndex.standards, the snapshot
  lastRefresh, \* StandardsIndex.lastRefresh
  clock,       \* the current instant; advances with every call
  pc,          \* where each in-flight call is suspended
  call,        \* the locals of each in-flight call
  result,      \* what each call has returned
  crashed      \* the process has stopped

vars == <<fs, standards, lastRefresh, clock, pc, call, result, crashed>>

NoResult == [status |-> "none", err |-> "", standard |-> NoStandard]

IdleCall ==
  [op |-> "none", path |-> <<>>, content |-> NoContent, patch |-> <<>>,
   bump |-> "patch", existing |-> NoStandard, updated |-> NoStandard,
   oldPath |-> <<>>, newPath |-> <<>>, files |-> <<>>, acc |-> <<>>,
   fs0 |-> <<>>, standards0 |-> <<>>]

Ok(standard) == [status |-> "ok", err |-> "", standard |-> standard]

Err(e) == [status |-> "error", err |-> e, standard |-> NoStandard]

\* A document as an earlier createStandard stored it.
StoredDoc(type, status) ==
  [kind |-> "doc", content |-> "c1",
   metadata |-> [type |-> type, tier |-> "backend", process |-> "development",
                 tags |-> <<"api">>, status |-> status, author |-> "team",
                 version |-> generateInitialVersion, created |-> 0, updated |-> 0]]

\* The directory at start-up: empty, or two documents (the base name of the
\* second contains that of the first) next to a file that does not parse.
InitialStores ==
  { <<>>,
    (<<"standard", "-", "backend", "-", "development", "-", "api", "-", "active",
       ".", "md">> :> StoredDoc("standard", "active"))
    @@ (<<"standard", "-", "backend", "-", "development", "-", "api", "-", "active",
          "-", "v2", "-", "active", ".", "md">> :> StoredDoc("standard", "active"))    ,
    (<<"standard", "-", "backend", "-", "development", "-", "api", "-", "active",
       ".", "md">> :> StoredDoc("standard", "active"))
    @@ (<<"notes", ".", "md">> :> Malformed) }

\* The server starts listening once initializeIndex has loaded the directory.
InitFrom(stores) ==
  /\ fs \in stores
  /\ \E order \in Orderings(DOMAIN fs) : standards = ReadAllIn(fs, order)
  /\ lastRefresh = 0
  /\ clock = 0
  /\ pc = [p \in Procs |-> "idle"]
  /\ call = [p \in Procs |-> IdleCall]
  /\ result = [p \in Procs |-> NoResult]
  /\ crashed = FALSE

Init == InitFrom(InitialStores)

CanBegin(p) == /\ ~crashed
               /\ pc[p] = "idle"
               /\ clock < MaxCalls

Fail(p, e) ==
  /\ pc' = [pc EXCEPT ![p] = "done"]
  /\ result' = [result EXCEPT ![p] = Err(e)]

\* ---------------------------------------------------- createStandardTool
\* The clock between the two generateISODate() calls of createStandard: it
\* shows the same millisecond, or the next.
ClockTicks == {0, 1}

\* completeMetadata: version, created and updated are generated, whatever
\* the caller's metadata holds for them.
completeMetadata(metadata, created, updated) ==
  [type |-> metadata.type, tier |-> metadata.tier, process |-> metadata.process,
   tags |-> metadata.tags, status |-> metadata.status, author |-> metadata.author,
   version |-> generateInitialVersion, created |-> created, updated |-> updated]

\* The standard createStandard is about to write.
newStandard(validatedMetadata, content, filename) ==
  [metadata |-> validatedMetadata, content |-> content,
   path |-> normalizeTargetPath(generateFilePath(validatedMetadata, filename))]

BeganCall(op) == [IdleCall EXCEPT !.op = op, !.fs0 = fs, !.standards0 = standards]

Planned(c, standard) == [c EXCEPT !.newPath = standard.path, !.updated = standard]

\* createStandard up to its first suspension, at fs.access.
CreateBegin(p, metadata, content, filename) ==
  /\ CanBegin(p)
  /\ Cardinality(DOMAIN fs) < MaxFiles
  /\ \E tick \in ClockTicks :
       /\ clock + 1 + tick <= MaxCalls
       /\ clock' = clock + 1 + tick
       /\ IF ~IsValidMetadata(completeMetadata(metadata, clock + 1, clock + 1 + tick))
          THEN /\ Fail(p, "validation")
               /\ call' = [call EXCEPT ![p] = BeganCall("create")]
          ELSE /\ pc' = [pc EXCEPT ![p] = "c_access"]
               /\ call' = [call EXCEPT ![p] =
                    Planned(BeganCall("create"),
                            newStandard(validateMetadata(
                                          completeMetadata(metadata, clock + 1,
                                                           clock + 1 + tick)),
                                        content, filename))]
               /\ UNCHANGED result
  /\ UNCHANGED <<fs, standards, lastRefresh, crashed>>

\* Fault: the name is not probed before the write.
CreateAccess_unchecked(p) ==
  /\ ~crashed
  /\ pc[p] = "c_access"
  /\ pc' = [pc EXCEPT ![p] = "c_write"]
  /\ UNCHANGED <<fs, standards, lastRefresh, clock, call, result, crashed>>

\* fs.access answers: the name is taken, or it is free.
CreateAccess(p) ==
  /\ ~crashed
  /\ pc[p] = "c_access"
  /\ IF FileExists(fs, call[p].newPath)
     THEN Fail(p, "exists")
     ELSE pc' = [pc EXCEPT ![p] = "c_write"] /\ UNCHANGED result
  /\ UNCHANGED <<fs, standards, lastRefresh, clock, call, crashed>>

\* writeStandard: fs.writeFile succeeds or fails.
CreateWrite(p) ==
  /\ ~crashed
  /\ pc[p] = "c_write"
  /\ \/ /\ fs' = WriteFile(fs, call[p].newPath, serializeStandard(call[p].updated))
        /\ pc' = [pc EXCEPT ![p] = "r_list"]
        /\ UNCHANGED result
     \/ /\ Fail(p, "write")
        /\ UNCHANGED fs
  /\ UNCHANGED <<standards, lastRefresh, clock, call, crashed>>

\* ---------------------------------------------------- updateStandardTool
UpdateBegin(p, path, content, patch, versionBump) ==
  /\ CanBegin(p)
  /\ content # NoContent \/ patch # <<>>
  /\ clock' = clock + 1
  /\ pc' = [pc EXCEPT ![p] = "u_read1"]
  /\ call' = [call EXCEPT ![p] =
       [BeganCall("update") EXCEPT !.path = path, !.content = content, !.patch = patch,
                                    !.bump = versionBump]]
  /\ UNCHANGED <<fs, standards, lastRefresh, result, crashed>>

\* readStandard fails on a missing file and on one that does not parse.
ReadError(target) ==
  IF ~FileExists(fs, target) THEN "notfound"
  ELSE IF fs[target].kind # "doc" THEN "read"
  ELSE ""

\* Fault: the bump starts from the initial version, not the existing one.
nextVersion_bumpsInitial(existingMetadata, metadata, versionBump) ==
  IF "version" \in DOMAIN metadata THEN metadata.version
  ELSE bumpVersion(generateInitialVersion, versionBump)

\* The version the tool puts in the patch: the caller's, or the bumped one.
nextVersion(existingMetadata, metadata, versionBump) ==
  IF "version" \in DOMAIN metadata THEN metadata.version
  ELSE bumpVersion(existingMetadata.version, versionBump)

\* The tool's own readStandard(path), then the patch it hands to updateStandard.
UpdateRead1(p) ==
  /\ ~crashed
  /\ pc[p] = "u_read1"
  /\ IF ReadError(normalizeTargetPath(call[p].path)) # ""
       THEN Fail(p, ReadError(normalizeTargetPath(call[p].path))) /\ UNCHANGED call
     ELSE IF ~MetadataUpdateAllowed(fs[normalizeTargetPath(call[p].path)].metadata,
                                    call[p].patch)
       THEN Fail(p, "validation") /\ UNCHANGED call
     ELSE /\ pc' = [pc EXCEPT ![p] = "u_read2"]
          /\ call' = [call EXCEPT ![p].patch =
               MergeMetadata(call[p].patch,
                 [version |-> nextVersion(fs[normalizeTargetPath(call[p].path)].metadata,
                                          call[p].patch, call[p].bump)])]
          /\ UNCHANGED result
  /\ UNCHANGED <<fs, standards, lastRefresh, clock, crashed>>

\* { ...existing.metadata, ...updates.metadata, updated: generateISODate() }
mergedMetadata(existing, patch, now) ==
  MergeMetadata(MergeMetadata(existing.metadata, patch), [updated |-> now])

\* Fault: the name is never re-derived, the document keeps its old one.
newRelativePath_keepsOldName(existing, validatedNewMetadata) ==
  normalizeTargetPath(existing.path)

\* The name updateStandard derives for the merged document.
newRelativePath(existing, validatedNewMetadata) ==
  normalizeTargetPath(
    generateFilePath(validatedNewMetadata,
      extractTitleBaseFromFilename(RemoveExtension(Basename(existing.path)),
                                   existing.metadata)))

\* The `updated` document of updateStandard.
updatedStandard(existing, validatedNewMetadata, content) ==
  [metadata |-> validatedNewMetadata,
   content |-> IF content # NoContent THEN content ELSE existing.content,
   path |-> newRelativePath(existing, validatedNewMetadata)]

PlannedUpdate(c, existing, updated) ==
  [Planned(c, updated) EXCEPT !.existing = existing,
                              !.oldPath = normalizeTargetPath(existing.path)]

AfterPlan(c) == IF c.oldPath # c.newPath THEN "u_access" ELSE "u_write"

\* updateStandard from its readStandard to the choice between rename and rewrite.
UpdateRead2(p) ==
  /\ ~crashed
  /\ pc[p] = "u_read2"
  /\ IF ReadError(normalizeTargetPath(call[p].path)) # ""
       THEN Fail(p, ReadError(normalizeTargetPath(call[p].path))) /\ UNCHANGED call
     ELSE IF ~IsValidMetadata(mergedMetadata(
                 parseStandard(fs[normalizeTargetPath(call[p].path)],
                               normalizeTargetPath(call[p].path)),
                 call[p].patch, clock))
       THEN Fail(p, "validation") /\ UNCHANGED call
     ELSE /\ call' = [call EXCEPT ![p] =
               PlannedUpdate(call[p],
                 parseStandard(fs[normalizeTargetPath(call[p].path)],
                               normalizeTargetPath(call[p].path)),
                 updatedStandard(
                   parseStandard(fs[normalizeTargetPath(call[p].path)],
                                 normalizeTargetPath(call[p].path)),
                   validateMetadata(mergedMetadata(
                     parseStandard(fs[normalizeTargetPath(call[p].path)],
                                   normalizeTargetPath(call[p].path)),
                     call[p].patch, clock)),
                   call[p].content))]
          /\ pc' = [pc EXCEPT ![p] = AfterPlan(call'[p])]
          /\ UNCHANGED result
  /\ UNCHANGED <<fs, standards, lastRefresh, clock, crashed>>

\* Fault: the target is not probed before the rename.
UpdateAccess_unchecked(p) ==
  /\ ~crashed
  /\ pc[p] = "u_access"
  /\ pc' = [pc EXCEPT ![p] = "u_rename"]
  /\ UNCHANGED <<fs, standards, lastRefresh, clock, call, result, crashed>>

\* fs.access(newFullPath): a taken target is a conflict.
UpdateAccess(p) ==
  /\ ~crashed
  /\ pc[p] = "u_access"
  /\ IF FileExists(fs, call[p].newPath)
     THEN Fail(p, "conflict")
     ELSE pc' = [pc EXCEPT ![p] = "u_rename"] /\ UNCHANGED result
  /\ UNCHANGED <<fs, standards, lastRefresh, clock, call, crashed>>

\* fs.rename(oldFullPath, newFullPath) succeeds or fails.
UpdateRename(p) ==
  /\ ~crashed
  /\ pc[p] = "u_rename"
  /\ \/ /\ FileExists(fs, call[p].oldPath)
        /\ fs' = RenameFile(fs, call[p].oldPath, call[p].newPath)
        /\ pc' = [pc EXCEPT ![p] = "u_rewrite"]
        /\ UNCHANGED result
     \/ /\ Fail(p, "rename")
        /\ UNCHANGED fs
  /\ UNCHANGED <<standards, lastRefresh, clock, call, crashed>>

\* fs.writeFile(newFullPath, serializeStandard(updated)) succeeds or fails.
UpdateRewrite(p) ==
  /\ ~crashed
  /\ pc[p] = "u_rewrite"
  /\ \/ /\ fs' = WriteFile(fs, call[p].newPath, serializeStandard(call[p].updated))
        /\ pc' = [pc EXCEPT ![p] = "r_list"]
        /\ UNCHANGED result
     \/ /\ Fail(p, "write")
        /\ UNCHANGED fs
  /\ UNCHANGED <<standards, lastRefresh, clock, call, crashed>>

\* The name is unchanged: writeStandard(updated) rewrites the file in place.
UpdateWrite(p) ==
  /\ ~crashed
  /\ pc[p] = "u_write"
  /\ \/ /\ fs' = WriteFile(fs, normalizeTargetPath(call[p].updated.path),
                           serializeStandard(call[p].updated))
        /\ pc' = [pc EXCEPT ![p] = "r_list"]
        /\ UNCHANGED result
     \/ /\ Fail(p, "write")
        /\ UNCHANGED fs
  /\ UNCHANGED <<standards, lastRefresh, clock, call, crashed>>

\* ---------------------------------------------------------- deleteStandard
DeleteBegin(p, path) ==
  /\ CanBegin(p)
  /\ clock' = clock + 1
  /\ pc' = [pc EXCEPT ![p] = "d_unlink"]
  /\ call' = [call EXCEPT ![p] = [BeganCall("delete") EXCEPT !.path = path]]
  /\ UNCHANGED <<fs, standards, lastRefresh, result, crashed>>

\* fs.unlink removes the file, reports it missing, or fails otherwise.
DeleteUnlink(p) ==
  /\ ~crashed
  /\ pc[p] = "d_unlink"
  /\ \/ /\ FileExists(fs, normalizeTargetPath(call[p].path))
        /\ fs' = UnlinkFile(fs, normalizeTargetPath(call[p].path))
        /\ pc' = [pc EXCEPT ![p] = "done"]
        /\ result' = [result EXCEPT ![p] = Ok(NoStandard)]
     \/ /\ ~FileExists(fs, normalizeTargetPath(call[p].path))
        /\ Fail(p, "notfound")
        /\ UNCHANGED fs
     \/ /\ FileExists(fs, normalizeTargetPath(call[p].path))
        /\ Fail(p, "unlink")
        /\ UNCHANGED fs
  /\ UNCHANGED <<standards, lastRefresh, clock, call, crashed>>

\* ------------------------------------------------- StandardsIndex.refresh
\* listAllStandardFiles: glob enumerates the directory.
RefreshList(p) ==
  /\ ~crashed
  /\ pc[p] = "r_list"
  /\ \E order \in Orderings(DOMAIN fs) :
       call' = [call EXCEPT ![p].files = order, ![p].acc = <<>>]
  /\ pc' = [pc EXCEPT ![p] = IF DOMAIN fs = {} THEN "r_swap" ELSE "r_read"]
  /\ UNCHANGED <<fs, standards, lastRefresh, clock, result, crashed>>

\* Fault: the try/catch is around the loop, so a file that cannot be read
\* ends the load and the tool call with an error.
RefreshRead_abortsLoad(p) ==
  /\ ~crashed
  /\ pc[p] = "r_read"
  /\ IF ReadAllIn(fs, <<Head(call[p].files)>>) = <<>>
     THEN Fail(p, "read") /\ UNCHANGED call
     ELSE /\ call' = [call EXCEPT
               ![p].files = Tail(call[p].files),
               ![p].acc = call[p].acc \o ReadAllIn(fs, <<Head(call[p].files)>>)]
          /\ pc' = [pc EXCEPT ![p] = IF Len(call[p].files) = 1 THEN "r_swap" ELSE "r_read"]
          /\ UNCHANGED result
  /\ UNCHANGED <<fs, standards, lastRefresh, clock, crashed>>

\* Fault: each document is pushed into the live snapshot as soon as it is read.
RefreshRead_inPlace(p) ==
  /\ ~crashed
  /\ pc[p] = "r_read"
  /\ call' = [call EXCEPT
       ![p].files = Tail(call[p].files),
       ![p].acc = call[p].acc \o ReadAllIn(fs, <<Head(call[p].files)>>)]
  /\ standards' = call'[p].acc
  /\ pc' = [pc EXCEPT ![p] = IF Len(call[p].files) = 1 THEN "r_swap" ELSE "r_read"]
  /\ UNCHANGED <<fs, lastRefresh, clock, result, crashed>>

\* One turn of readAllStandards' loop: readStandard(file), pushed when it
\* succeeds, logged and skipped when it throws.
RefreshRead(p) ==
  /\ ~crashed
  /\ pc[p] = "r_read"
  /\ call' = [call EXCEPT
       ![p].files = Tail(call[p].files),
       ![p].acc = call[p].acc \o ReadAllIn(fs, <<Head(call[p].files)>>)]
  /\ pc' = [pc EXCEPT ![p] = IF Len(call[p].files) = 1 THEN "r_swap" ELSE "r_read"]
  /\ UNCHANGED <<fs, standards, lastRefresh, clock, result, crashed>>

\* Fault: the snapshot is patched with the written document, not rebuilt.
RefreshSwap_patches(p) ==
  /\ ~crashed
  /\ pc[p] = "r_swap"
  /\ standards' = Append(standards, call[p].updated)
  /\ lastRefresh' = clock
  /\ pc' = [pc EXCEPT ![p] = "done"]
  /\ result' = [result EXCEPT ![p] = Ok(call[p].updated)]
  /\ UNCHANGED <<fs, clock, call, crashed>>

\* this.standards = await readAllStandards(); this.lastRefresh = new Date();
\* the tool then returns success.
RefreshSwap(p) ==
  /\ ~crashed
  /\ pc[p] = "r_swap"
  /\ standards' = call[p].acc
  /\ lastRefresh' = clock
  /\ pc' = [pc EXCEPT ![p] = "done"]
  /\ result' = [result EXCEPT ![p] = Ok(call[p].updated)]
  /\ UNCHANGED <<fs, clock, call, crashed>>

\* The response has been delivered; the handler is gone.
Return(p) ==
  /\ ~crashed
  /\ pc[p] = "done"
  /\ pc' = [pc EXCEPT ![p] = "idle"]
  /\ call' = [call EXCEPT ![p] = IdleCall]
  /\ result' = [result EXCEPT ![p] = NoResult]
  /\ UNCHANGED <<fs, standards, lastRefresh, clock, crashed>>

\* The process stops while some call is suspended.
Crash ==
  /\ ~crashed
  /\ \E p \in Procs : pc[p] \notin {"idle", "done"}
  /\ crashed' = TRUE
  /\ UNCHANGED <<fs, standards, lastRefresh, clock, pc, call, result>>

CreateInputs ==
  [type : TypeInputs, tier : TierInputs, process : ProcessInputs, tags : TagInputs,
   status : StatusInputs, author : {"team"}]

\* The paths a caller may name: files of the store and entries of the snapshot.
PathInputs == DOMAIN fs \cup {standards[i].path : i \in 1..Len(standards)}

\* What a handler may do next, its inputs drawn from the given sets.
Step(p, creates, titles, contents, patches) ==
  \/ \E m \in creates, c \in CreateContents, f \in titles : CreateBegin(p, m, c, f)
  \/ CreateAccess(p)
  \/ CreateWrite(p)
  \/ \E path \in PathInputs, c \in contents, m \in patches, b \in VersionBumps :
       UpdateBegin(p, path, c, m, b)
  \/ UpdateRead1(p)
  \/ UpdateRead2(p)
  \/ UpdateAccess(p)
  \/ UpdateRename(p)
  \/ UpdateRewrite(p)
  \/ UpdateWrite(p)
  \/ RefreshList(p)
  \/ RefreshRead(p)
  \/ RefreshSwap(p)
  \/ Return(p)

\* One call at a time (only the first handler ever runs); the storage layer's
\* delete is called too, and the process may stop at any suspension.
NextSeq ==
  \/ Step(1, CreateInputs, TitleInputs, UpdateContents, PatchInputs)
  \/ \E path \in PathInputs : DeleteBegin(1, path)
  \/ DeleteUnlink(1)
  \/ Crash

SpecSeq == Init /\ [][NextSeq]_vars

\* Inputs of overlapping calls.
OverlapCreateInputs == {m \in CreateInputs : m.type = "standard" /\ m.tags # <<>>}

OverlapPatchInputs == {<<>>, [status |-> "draft"]}

\* Calls overlap: each suspends at its awaits and the others run meanwhile.
Next ==
  \E p \in Procs : Step(p, OverlapCreateInputs, {<<>>}, UpdateContents, OverlapPatchInputs)

\* Overlapping calls start from an empty directory or from one document.
OverlapStores ==
  { <<>>,
    (<<"standard", "-", "backend", "-", "development", "-", "api", "-", "active",
       ".", "md">> :> StoredDoc("standard", "active")) }

Spec == InitFrom(OverlapStores) /\ [][Next]_vars

\* ------------------------------------------------- updates in sequence
\* A document that earlier updates have brought to version 1.2.9.
VersionStores ==
  { (<<"standard", "-", "backend", "-", "development", "-", "api", "-", "active",
       ".", "md">> :>
       [StoredDoc("standard", "active") EXCEPT !.metadata.version = <<1, 2, 9>>]) }

\* Patches with and without a version: equal to the stored one, below it,
\* above it, and together with a status that renames the file.
VersionPatchInputs ==
  { <<>>,
    [version |-> <<1, 2, 9>>],
    [version |-> <<1, 2, 8>>],
    [version |-> <<2, 0, 0>>],
    [status |-> "draft", version |-> <<1, 3, 0>>],
    [status |-> "draft"] }

AllVersionBumps == {"patch", "minor", "major"}

\* update_standard calls one after the other, with every kind of bump.
NextVersions ==
  \/ \E path \in PathInputs, m \in VersionPatchInputs, b \in AllVersionBumps :
       UpdateBegin(1, path, "c2", m, b)
  \/ UpdateRead1(1)
  \/ UpdateRead2(1)
  \/ UpdateAccess(1)
  \/ UpdateRename(1)
  \/ UpdateRewrite(1)
  \/ UpdateWrite(1)
  \/ RefreshList(1)
  \/ RefreshRead(1)
  \/ RefreshSwap(1)
  \/ Return(1)

SpecVersions == InitFrom(VersionStores) /\ [][NextVersions]_vars

\* ------------------------------------------------- queries on a snapshot
\* Number of documents in the snapshot a query runs on.
MaxSnapshot == 3

QueryDoc(path, type, tier, process, tags, status, content) ==
  [path |-> path, content |-> content,
   metadata |-> [type |-> type, tier |-> tier, process |-> process, tags |-> tags,
                 status |-> status, author |-> "team",
                 version |-> generateInitialVersion, created |-> 0, updated |-> 0]]

\* Documents of several types, one stored under a legacy spelling of its
\* type, with one tag and with two, with bodies that hold a word twice, in
\* upper case, or not at all; the name of the first one, a draft created
\* under the title "api-active", holds the whole name of the second.
QueryDocs ==
  { QueryDoc(<<"standard", "-", "backend", "-", "development", "-", "api", "-", "active",
               "-", "draft", ".", "md">>,
             "standard", "backend", "development", <<"api">>, "draft",
             <<"draft">>),
    QueryDoc(<<"standard", "-", "backend", "-", "development", "-", "api", "-", "active",
               ".", "md">>,
             "standard", "backend", "development", <<"api">>, "active",
             <<"REST", " ", "api", " ", "rest">>),
    QueryDoc(<<"legacy", "-", "security", ".", "md">>,
             "standards", "backend", "development", <<"security", "api">>, "active",
             <<"api">>),
    QueryDoc(<<"tech", "-", "stack", "-", "frontend", "-", "testing", "-", "security", "-",
               "draft", ".", "md">>,
             "tech-stack", "frontend", "testing", <<"security">>, "draft",
             <<"notes">>),
    QueryDoc(<<"process", "-", "backend", "-", "development", "-", "rest", "-",
               "deprecated", ".", "md">>,
             "process", "backend", "development", <<"rest", "process">>, "deprecated",
             <<>>) }

\* Every order of up to MaxSnapshot of the documents.
QuerySnapshots ==
  UNION {{q \in [1..n -> QueryDocs] : \A i, j \in 1..n : i # j => q[i] # q[j]} :
           n \in 0..MaxSnapshot}

\* A type criterion: none, a canonical spelling, a legacy one, the plural.
TypeCriteria ==
  {"", "standard", "standards", "Standards", "tech-stack", "technical-stack",
   "process", "processes", "principle", "principles", "practice", "practices"}

\* FilterOptions: each criterion given or not, the tags none, one or two.
FilterInputs ==
  {[type |-> t, tier |-> r, status |-> st, tags |-> g] :
     t \in TypeCriteria, r \in {"", "backend"}, st \in {"", "active"},
     g \in {<<>>, <<"api">>, <<"security", "api">>}}
  \cup {<<>>, [process |-> "development"], [process |-> "testing", tags |-> <<"security">>]}

\* Options of a search.
SearchOptionInputs == {<<>>, [status |-> "active"], [tags |-> <<"api">>]}

\* Queries: a word of the bodies in either case, words of the metadata, two
\* fields across the blank that joins them, a word that is a type and a
\* tag of one document, a word found nowhere.
QueryInputs ==
  { <<"api">>, <<"REST">>, <<"standard">>, <<"backend", " ", "development">>,
    <<"security">>, <<"process">>, <<"team">>, <<"kafka">> }

LimitInputs == {1, 2, 10}

InitQuery ==
  /\ standards \in QuerySnapshots
  /\ fs = [f \in {standards[i].path : i \in 1..Len(standards)} |->
             serializeStandard(CHOOSE d \in QueryDocs : d.path = f)]
  /\ lastRefresh = 0
  /\ clock = 0
  /\ pc = [p \in Procs |-> "idle"]
  /\ call = [p \in Procs |-> IdleCall]
  /\ result = [p \in Procs |-> NoResult]
  /\ crashed = FALSE

\* What a query returns.
Answer(value) == [status |-> "ok", err |-> "", value |-> value]

\* Fault: the filter is applied to the snapshot itself.
Filter_narrowsSnapshot(p, options) ==
  /\ pc[p] = "idle"
  /\ pc' = [pc EXCEPT ![p] = "done"]
  /\ call' = [call EXCEPT ![p] = [op |-> "filter", options |-> options]]
  /\ result' = [result EXCEPT ![p] = Answer(filter(standards, options))]
  /\ standards' = filter(standards, options)
  /\ UNCHANGED <<fs, lastRefresh, clock, crashed>>

\* index.filter(options), as findByMetadata and the list tools call it
Filter(p, options) ==
  /\ pc[p] = "idle"
  /\ pc' = [pc EXCEPT ![p] = "done"]
  /\ call' = [call EXCEPT ![p] = [op |-> "filter", options |-> options]]
  /\ result' = [result EXCEPT ![p] = Answer(filter(standards, options))]
  /\ UNCHANGED <<fs, standards, lastRefresh, clock, crashed>>

\* index.search(query, options, limit); `results` is the array before it is
\* sorted and cut.
Search(p, query, options, limit) ==
  /\ pc[p] = "idle"
  /\ pc' = [pc EXCEPT ![p] = "done"]
  /\ call' = [call EXCEPT ![p] =
       [op |-> "search", query |-> query, options |-> options, limit |-> limit,
        results |-> scoredResults(filter(standards, options), toLowerCase(query))]]
  /\ result' = [result EXCEPT ![p] = Answer(search(standards, query, options, limit))]
  /\ UNCHANGED <<fs, standards, lastRefresh, clock, crashed>>

\* index.buildHierarchicalIndex(options)
BuildHierarchicalIndex(p, options) ==
  /\ pc[p] = "idle"
  /\ pc' = [pc EXCEPT ![p] = "done"]
  /\ call' = [call EXCEPT ![p] = [op |-> "group", options |-> options]]
  /\ result' = [result EXCEPT ![p] = Answer(buildHierarchicalIndex(standards, options))]
  /\ UNCHANGED <<fs, standards, lastRefresh, clock, crashed>>

\* index.getMetadataList(options)
GetMetadataList(p, options) ==
  /\ pc[p] = "idle"
  /\ pc' = [pc EXCEPT ![p] = "done"]
  /\ call' = [call EXCEPT ![p] = [op |-> "metadata", options |-> options]]
  /\ result' = [result EXCEPT ![p] = Answer(getMetadataList(standards, options))]
  /\ UNCHANGED <<fs, standards, lastRefresh, clock, crashed>>

\* Identifiers a caller looks up: the stored path of a document of the
\* snapshot, that path under standards/, a name without its extension, in
\* other case, under a directory, a word of several names, a name that is
\* not there, and no path.
LookupPaths(snapshot) ==
  {snapshot[i].path : i \in 1..Len(snapshot)}
  \cup {<<"standards", "/">> \o snapshot[i].path : i \in 1..Len(snapshot)}
  \cup { <<"standard", "-", "backend", "-", "development", "-", "api", "-", "active">>,
         <<"standard", "-", "backend", "-", "development", "-", "API", "-", "active",
           ".", "MD">>,
         <<"docs", "/", "legacy", "-", "security", ".", "md">>,
         <<"security">>,
         <<"missing", ".", "md">>,
         <<>> }

\* index.findByPath(path)
FindByPath(p, path) ==
  /\ pc[p] = "idle"
  /\ pc' = [pc EXCEPT ![p] = "done"]
  /\ call' = [call EXCEPT ![p] = [op |-> "find", path |-> path]]
  /\ result' = [result EXCEPT ![p] = Answer(findByPath(standards, path))]
  /\ UNCHANGED <<fs, standards, lastRefresh, clock, crashed>>

\* getIndexStats()
GetIndexStats(p) ==
  /\ pc[p] = "idle"
  /\ pc' = [pc EXCEPT ![p] = "done"]
  /\ call' = [call EXCEPT ![p] = [op |-> "stats"]]
  /\ result' = [result EXCEPT ![p] = Answer(getIndexStats(standards, lastRefresh))]
  /\ UNCHANGED <<fs, standards, lastRefresh, clock, crashed>>

\* The caller that holds the answer to a read issues the same read again.
Repeat ==
  /\ pc[1] = "done"
  /\ \/ call[1].op = "filter" /\ Filter(2, call[1].options)
     \/ call[1].op = "search"
          /\ Search(2, call[1].query, call[1].options, call[1].limit)
     \/ call[1].op = "group" /\ BuildHierarchicalIndex(2, call[1].options)
     \/ call[1].op = "metadata" /\ GetMetadataList(2, call[1].options)
     \/ call[1].op = "find" /\ FindByPath(2, call[1].path)
     \/ call[1].op = "stats" /\ GetIndexStats(2)

NextQuery ==
  \/ \E options \in FilterInputs : Filter(1, options)
  \/ \E query \in QueryInputs, options \in SearchOptionInputs, limit \in LimitInputs :
       Search(1, query, options, limit)
  \/ \E options \in FilterInputs : BuildHierarchicalIndex(1, options)
  \/ \E options \in FilterInputs : GetMetadataList(1, options)
  \/ \E path \in LookupPaths(standards) : FindByPath(1, path)
  \/ GetIndexStats(1)
  \/ Repeat
  \/ Return(2)
  \/ pc[2] = "idle" /\ Return(1)

SpecQuery == InitQuery /\ [][NextQuery]_vars

\* ------------------------------------------------- names and paths alone
\* How many times a derived name is fed back in as the title.
MaxReapply == 2

\* Validated metadata of every type and status; "standards" is a legacy spelling.
NameMetadata ==
  [type : CanonicalTypes \cup {"standards"}, tier : TierInputs, process : ProcessInputs,
   tags : {<<"api">>}, status : ValidStatuses, author : {"team"}]

\* Titles: absent, a word, words in runs of separators, mixed case with
\* blanks and an extension, a directory, a name already derived, one ending
\* in a status, and titles with no letter or digit in them.
NameTitles ==
  { <<>>,
    <<"api">>,
    <<" ", "REST", "_", " ", "api", "\\">>,
    <<"API", " ", "guide", ".", "MD">>,
    <<"standards", "/", "rest", "_", "api">>,
    <<"standard", "-", "backend", "-", "development", "-", "api", "-", "active", ".", "md">>,
    <<"api", "-", "active">>,
    <<"active">>,
    <<"-", "-", "-">>,
    <<".", "md">> }

\* Paths as callers give them: relative, under one or two standards/
\* prefixes, with a leading slash, absolute inside and outside the directory.
NamePaths ==
  { <<"api", ".", "md">>,
    <<"standards", "/", "api", ".", "md">>,
    <<"Standards", "\\", "api", ".", "md">>,
    <<"standards", "/", "standards", "/", "api", ".", "md">>,
    <<"/", "standards", "/", "api", ".", "md">>,
    <<"/", "srv", "/", "standards", "/", "api", ".", "md">>,
    <<"/", "srv", "/", "standards", "/", "standards", "/", "api", ".", "md">>,
    <<"/", "srv", "/", "standards">>,
    <<"/", "etc", "/", "api", ".", "md">> }

\* The locals of a caller that derives a name and derives again from the
\* result, and that normalizes a path and normalizes the result again.
NameCall(metadata, filename, path) ==
  [op |-> "derive", metadata |-> metadata, filename |-> filename, names |-> <<>>,
   path |-> path, targetPaths |-> <<>>, indexPaths |-> <<>>]

InitNames ==
  /\ fs = <<>>
  /\ standards = <<>>
  /\ lastRefresh = 0
  /\ clock = 0
  /\ pc = [p \in Procs |-> "idle"]
  /\ \E m \in NameMetadata, s \in NameTitles, path \in NamePaths :
       call = [p \in Procs |-> NameCall(validateMetadata(m), s, path)]
  /\ result = [p \in Procs |-> NoResult]
  /\ crashed = FALSE

\* The title of the next derivation: the caller's, then the name just derived.
nextTitle(c) == IF c.names = <<>> THEN c.filename ELSE c.names[Len(c.names)]

\* generateFilePath(metadata, title)
DeriveName ==
  /\ Len(call[1].names) < MaxReapply
  /\ call' = [call EXCEPT
       ![1].names = Append(@, generateFilePath(call[1].metadata, nextTitle(call[1])))]
  /\ UNCHANGED <<fs, standards, lastRefresh, clock, pc, result, crashed>>

\* The path of the next normalization: the caller's, then the one just returned.
nextPath(path, normalized) ==
  IF normalized = <<>> THEN path ELSE normalized[Len(normalized)]

\* normalizeTargetPath(path), of the storage layer
NormalizeTarget ==
  /\ Len(call[1].targetPaths) < MaxReapply
  /\ call' = [call EXCEPT
       ![1].targetPaths =
          Append(@, normalizeTargetPath(nextPath(call[1].path, call[1].targetPaths)))]
  /\ UNCHANGED <<fs, standards, lastRefresh, clock, pc, result, crashed>>

\* normalizeIndexPath(path), of the index
NormalizeIndex ==
  /\ Len(call[1].indexPaths) < MaxReapply
  /\ call' = [call EXCEPT
       ![1].indexPaths =
          Append(@, normalizeIndexPath(nextPath(call[1].path, call[1].indexPaths)))]
  /\ UNCHANGED <<fs, standards, lastRefresh, clock, pc, result, crashed>>

NextNames == DeriveName \/ NormalizeTarget \/ NormalizeIndex

SpecNames == InitNames /\ [][NextNames]_vars

\* ------------------------------------------ search, one step at a time
\* Passes of the scanning loop that are counted in `score` and kept in
\* `matches`; the loop itself goes on past them.
MaxMatches == 4

\* String.prototype.indexOf(t, from): the first place at or after `from`
\* where t occurs, -1 when there is none; the empty string occurs at
\* `from`, or at the end of s when `from` lies beyond it.
indexOf(s, t, from) ==
  IF t = <<>> THEN (IF from < Len(s) THEN from ELSE Len(s))
  ELSE IF \E i \in from..(Len(s) - Len(t)) : SubSeq(s, i + 1, i + Len(t)) = t
    THEN CHOOSE i \in from..(Len(s) - Len(t)) :
           /\ SubSeq(s, i + 1, i + Len(t)) = t
           /\ \A j \in from..(i - 1) : SubSeq(s, j + 1, j + Len(t)) # t
  ELSE -1

\* Queries the engine can be handed: a word, one character, no character,
\* a word found nowhere.
ScanQueries == { <<"api">>, <<" ">>, <<>>, <<"kafka">> }

\* Options and limits of these searches.
ScanOptions == {<<>>, [status |-> "active"]}

ScanLimits == {1, 10}

\* The locals of search; `odd` tells whether the scanning loop has made an
\* odd number of passes over the current body.
ScanCall(query, options, limit, filtered) ==
  [op |-> "search", query |-> query, options |-> options, limit |-> limit,
   filtered |-> filtered, position |-> 0, index |-> -1, matches |-> <<>>, score |-> 0,
   odd |-> FALSE, results |-> <<>>]

\* const queryLower, filtered, results
SearchBegin(query, options, limit) ==
  /\ pc[1] = "idle"
  /\ pc' = [pc EXCEPT ![1] = "s_next"]
  /\ call' = [call EXCEPT ![1] = ScanCall(query, options, limit, filter(standards, options))]
  /\ UNCHANGED <<fs, standards, lastRefresh, clock, result, crashed>>

\* for (const standard of filtered): the next document and the first indexOf,
\* or the end of the list.
SearchNextDocument ==
  /\ pc[1] = "s_next"
  /\ IF call[1].position < Len(call[1].filtered)
       THEN /\ pc' = [pc EXCEPT ![1] = "s_scan"]
            /\ call' = [call EXCEPT
                 ![1].position = @ + 1,
                 ![1].matches = <<>>,
                 ![1].score = 0,
                 ![1].odd = FALSE,
                 ![1].index =
                    indexOf(toLowerCase(call[1].filtered[call[1].position + 1].content),
                            toLowerCase(call[1].query), 0)]
       ELSE /\ pc' = [pc EXCEPT ![1] = "s_sort"]
            /\ UNCHANGED call
  /\ UNCHANGED <<fs, standards, lastRefresh, clock, result, crashed>>

\* while (index !== -1) { matches.push; score += 1; index = indexOf(.., index + 1) }
SearchScan ==
  /\ pc[1] = "s_scan"
  /\ IF call[1].index # -1
       THEN /\ call' = [call EXCEPT
                 ![1].matches = IF Len(@) < MaxMatches THEN Append(@, call[1].index) ELSE @,
                 ![1].score = IF @ < MaxMatches THEN @ + 1 ELSE @,
                 ![1].odd = ~@,
                 ![1].index =
                    indexOf(toLowerCase(call[1].filtered[call[1].position].content),
                            toLowerCase(call[1].query), call[1].index + 1)]
            /\ UNCHANGED pc
       ELSE /\ pc' = [pc EXCEPT ![1] = "s_score"]
            /\ UNCHANGED call
  /\ UNCHANGED <<fs, standards, lastRefresh, clock, result, crashed>>

\* The score once the body is scanned: 2 for the metadata, 1 for the path.
scoreAfterScan(standard, queryLower, score) ==
  score + (IF Includes(metadataText(standard), queryLower) THEN 2 ELSE 0)
        + (IF Includes(toLowerCase(standard.path), queryLower) THEN 1 ELSE 0)

\* The metadata, the path, and results.push when something was found.
SearchScore ==
  /\ pc[1] = "s_score"
  /\ pc' = [pc EXCEPT ![1] = "s_next"]
  /\ call' = [call EXCEPT ![1].results =
       IF \/ Len(call[1].matches) > 0
          \/ scoreAfterScan(call[1].filtered[call[1].position],
                            toLowerCase(call[1].query), call[1].score) > 0
       THEN Append(@, [standard |-> call[1].filtered[call[1].position],
                       matches |-> sliceTo(call[1].matches, 3),
                       score |-> scoreAfterScan(call[1].filtered[call[1].position],
                                                toLowerCase(call[1].query),
                                                call[1].score)])
       ELSE @]
  /\ UNCHANGED <<fs, standards, lastRefresh, clock, result, crashed>>

\* return results.sort(...).slice(0, limit)
SearchSort ==
  /\ pc[1] = "s_sort"
  /\ pc' = [pc EXCEPT ![1] = "done"]
  /\ result' = [result EXCEPT ![1] =
       Answer(sliceTo(sortByScore(call[1].results), call[1].limit))]
  /\ UNCHANGED <<fs, standards, lastRefresh, clock, call, crashed>>

NextScan ==
  \/ \E query \in ScanQueries, options \in ScanOptions, limit \in ScanLimits :
       SearchBegin(query, options, limit)
  \/ SearchNextDocument
  \/ SearchScan
  \/ SearchScore
  \/ SearchSort

\* search runs to its end without giving up the thread: every step that
\* can be taken is taken.
SpecScan == InitQuery /\ [][NextScan]_vars /\ WF_vars(NextScan)

\* ------------------------------------------- names of the two layouts
\* Slugs of stored names: one word, two words, and slugs that end or begin
\* with a word that is also a status.
LayoutSlugs ==
  { <<"api">>, <<"rest", "-", "api">>, <<"first", "-", "draft">>, <<"active", "-", "guide">> }

\* Where a stored name carries the status: at the end, in fourth place (the
\* layout of older files), or nowhere.
Layouts == {"status-last", "status-fourth", "no-status"}

\* The name of a stored document in a layout.
layoutName(metadata, slug, layout) ==
  CASE layout = "status-last" ->
         NamePrefix(metadata) \o slug \o NameSuffix(metadata) \o MARKDOWN_EXTENSION
    [] layout = "status-fourth" ->
         NamePrefix(metadata) \o toLowerCase(Chars(metadata.status)) \o <<"-">> \o slug
           \o MARKDOWN_EXTENSION
    [] OTHER -> NamePrefix(metadata) \o slug \o MARKDOWN_EXTENSION

\* A stored document as readStandard returns it.
LayoutDoc(type, process, status, slug, layout) ==
  [path |-> layoutName([type |-> type, tier |-> "backend", process |-> process,
                        status |-> status], slug, layout),
   content |-> "c1",
   metadata |-> [type |-> type, tier |-> "backend", process |-> process,
                 tags |-> <<"api">>, status |-> status, author |-> "team",
                 version |-> generateInitialVersion, created |-> 0, updated |-> 0]]

\* updates.metadata before the tool adds the version: nothing else, a new
\* status, a new type and status, a new tier.
LayoutPatches ==
  { <<>>, [status |-> "active"], [status |-> "draft"], [status |-> "deprecated"],
    [type |-> "practice", status |-> "active"], [type |-> "tech-stack"],
    [tier |-> "frontend"] }

\* The locals of updateStandard from `existing` to `newRelativePath`.
LayoutCall(existing, slug, layout) ==
  [op |-> "update", existing |-> existing, slug |-> slug, layout |-> layout,
   titleBase |-> <<>>, metadata |-> <<>>, newPath |-> <<>>]

InitLayouts ==
  /\ fs = <<>>
  /\ standards = <<>>
  /\ lastRefresh = 0
  /\ clock = 0
  /\ pc = [p \in Procs |-> IF p = 1 THEN "u_read2" ELSE "idle"]
  /\ \E type \in CanonicalTypes, process \in {"development", "testing"},
        status \in ValidStatuses, slug \in LayoutSlugs, layout \in Layouts :
       call = [p \in Procs |-> LayoutCall(LayoutDoc(type, process, status, slug, layout),
                                          slug, layout)]
  /\ result = [p \in Procs |-> NoResult]
  /\ crashed = FALSE

\* const titleBase = extractTitleBaseFromFilename(existingBasename, existing.metadata)
ExtractTitleBase ==
  /\ pc[1] = "u_read2"
  /\ pc' = [pc EXCEPT ![1] = "u_name"]
  /\ call' = [call EXCEPT ![1].titleBase =
       extractTitleBaseFromFilename(RemoveExtension(Basename(call[1].existing.path)),
                                    call[1].existing.metadata)]
  /\ UNCHANGED <<fs, standards, lastRefresh, clock, result, crashed>>

\* The merged metadata and newRelativePath, for the patch the tool passes.
DeriveNewName(patch) ==
  /\ pc[1] = "u_name"
  /\ pc' = [pc EXCEPT ![1] = "done"]
  /\ clock' = clock + 1
  /\ call' = [call EXCEPT
       ![1].metadata =
          validateMetadata(mergedMetadata(call[1].existing,
            MergeMetadata(patch,
              [version |-> nextVersion(call[1].existing.metadata, patch, "patch")]),
            clock + 1)),
       ![1].newPath =
          newRelativePath(call[1].existing,
            validateMetadata(mergedMetadata(call[1].existing,
              MergeMetadata(patch,
                [version |-> nextVersion(call[1].existing.metadata, patch, "patch")]),
              clock + 1)))]
  /\ UNCHANGED <<fs, standards, lastRefresh, result, crashed>>

NextLayouts == ExtractTitleBase \/ \E patch \in LayoutPatches : DeriveNewName(patch)

SpecLayouts == InitLayouts /\ [][NextLayouts]_vars

\* ================================================================ claims
\* Where a call stands once its storage function has returned its document.
Stored(p) ==
  /\ call[p].op \in {"create", "update"}
  /\ \/ pc[p] \in {"r_list", "r_read", "r_swap"}
     \/ pc[p] = "done" /\ result[p].status = "ok"

\* C1: after every successful createStandard or updateStandard the returned
\* path is the type-tier-process prefix of the document's own validated
\* metadata, a slug, the status suffix and .md, and the file at that path
\* holds that metadata.
C1_NameMatchesMetadata ==
  \A p \in Procs : Stored(p) =>
    /\ IsValidMetadata(call[p].updated.metadata)
    /\ call[p].updated.metadata.type \in CanonicalTypes
    /\ StartsWith(call[p].updated.path, NamePrefix(call[p].updated.metadata))
    /\ EndsWith(call[p].updated.path,
                NameSuffix(call[p].updated.metadata) \o MARKDOWN_EXTENSION)
    /\ Len(call[p].updated.path) >= Len(NamePrefix(call[p].updated.metadata))
         + Len(NameSuffix(call[p].updated.metadata)) + Len(MARKDOWN_EXTENSION)
    /\ FileExists(fs, call[p].updated.path)
    /\ fs[call[p].updated.path] = serializeStandard(call[p].updated)

\* An update that changed the status has been stored under its new name.
C1_Witness ==
  /\ pc[1] = "done" /\ result[1].status = "ok" /\ call[1].op = "update"
  /\ call[1].updated.metadata.status # call[1].existing.metadata.status
  /\ result[1].standard = call[1].updated

\* The name createStandard gives a document with this metadata, for some title.
IsCreatedName(path, metadata) ==
  \E f \in TitleInputs : normalizeTargetPath(generateFilePath(metadata, f)) = path

\* Where an update stands once it has derived the new name.
Derived(p) == call[p].op = "update" /\ call[p].existing # NoStandard

SameNameFields(m, n) ==
  /\ m.type = n.type /\ m.tier = n.tier /\ m.process = n.process /\ m.status = n.status

\* C2: an update of a document stored under the name create gave it that
\* changes none of type, tier, process and status performs no rename: the
\* new path is the old path, for every type.
C2_NoRenameWithoutNameChange ==
  \A p \in Procs :
    ( /\ Derived(p)
      /\ IsCreatedName(call[p].existing.path, call[p].existing.metadata)
      /\ SameNameFields(call[p].updated.metadata, call[p].existing.metadata) )
    => call[p].updated.path = call[p].existing.path

\* The same for the types whose name has no hyphen: here the code agrees.
C2_HoldsForPlainTypes ==
  \A p \in Procs :
    ( /\ Derived(p)
      /\ call[p].existing.metadata.type = "standard"
      /\ IsCreatedName(call[p].existing.path, call[p].existing.metadata)
      /\ SameNameFields(call[p].updated.metadata, call[p].existing.metadata) )
    => call[p].updated.path = call[p].existing.path

\* A renaming update between its conflict check and the end of the call.
Renaming(p) ==
  /\ call[p].op = "update"
  /\ call[p].existing # NoStandard
  /\ call[p].oldPath # call[p].newPath
  /\ \/ pc[p] \in {"u_rename", "u_rewrite", "r_list", "r_read", "r_swap"}
     \/ pc[p] = "done" /\ result[p].status = "ok"
     \/ pc[p] = "done" /\ result[p].err \in {"rename", "write"}

\* C3: with one call in flight, in every state of a renaming update, a
\* stopped process included, the document's file is at exactly one of the
\* old and the new path, and it holds the old or the merged document.
C3_ExactlyOnePath ==
  \A p \in Procs : Renaming(p) =>
    /\ FileExists(fs, call[p].oldPath) # FileExists(fs, call[p].newPath)
    /\ FileExists(fs, call[p].oldPath) =>
         fs[call[p].oldPath] = serializeStandard(call[p].existing)
    /\ FileExists(fs, call[p].newPath) =>
         fs[call[p].newPath] \in {serializeStandard(call[p].existing),
                                  serializeStandard(call[p].updated)}

\* The process stopped between fs.rename and fs.writeFile.
C3_Witness ==
  /\ crashed /\ pc[1] = "u_rewrite"
  /\ ~FileExists(fs, call[1].oldPath) /\ FileExists(fs, call[1].newPath)

\* C4: whenever create, update or delete ends in an error the file system
\* is as it was when the operation began.
C4_ErrorLeavesFilesUntouched ==
  \A p \in Procs :
    (pc[p] = "done" /\ result[p].status = "error") => fs = call[p].fs0

\* An update whose rewrite failed after its rename: the file carries the new
\* name and the old document.
C4_Witness ==
  /\ pc[1] = "done" /\ result[1].err = "write" /\ call[1].op = "update"
  /\ call[1].oldPath # call[1].newPath
  /\ ~FileExists(fs, call[1].oldPath)
  /\ fs[call[1].newPath] = serializeStandard(call[1].existing)

\* C5: with one call in flight, an update whose new name differs from the
\* old and is taken ends in a conflict with every file as it was, and no
\* update goes on to rename onto a name that was taken.
C5_ConflictChangesNothing ==
  \A p \in Procs : call[p].op = "update" =>
    /\ (pc[p] = "done" /\ result[p].err = "conflict") =>
         /\ fs = call[p].fs0
         /\ call[p].oldPath # call[p].newPath
         /\ FileExists(fs, call[p].newPath)
         /\ FileExists(fs, call[p].oldPath)
         /\ fs[call[p].oldPath] = serializeStandard(call[p].existing)
    /\ Renaming(p) => ~FileExists(call[p].fs0, call[p].newPath)

\* An update has ended in a conflict.
C5_Witness ==
  /\ pc[1] = "done" /\ call[1].op = "update" /\ result[1].err = "conflict"
  /\ call[1].updated.metadata.status # call[1].existing.metadata.status

\* C6: with one call in flight, a create whose name is taken ends in an
\* already-exists error with every file as it was; a create that goes on to
\* write found the name free, and once written exactly that one file is new.
C6_CreateExistsOrOneNewFile ==
  \A p \in Procs : call[p].op = "create" =>
    /\ (pc[p] = "done" /\ result[p].err = "exists") =>
         fs = call[p].fs0 /\ FileExists(fs, call[p].newPath)
    /\ pc[p] = "c_write" => ~FileExists(fs, call[p].newPath)
    /\ Stored(p) =>
         /\ ~FileExists(call[p].fs0, call[p].newPath)
         /\ fs = WriteFile(call[p].fs0, call[p].newPath, serializeStandard(call[p].updated))
         /\ Cardinality(DOMAIN fs) = Cardinality(DOMAIN call[p].fs0) + 1

\* A create has been refused because its name was taken.
C6_Witness ==
  /\ pc[1] = "done" /\ call[1].op = "create" /\ result[1].err = "exists"
  /\ FileExists(fs, call[1].newPath)

\* C7: after a successful update tool call that changes only the status of a
\* document whose name ends in the old status, findByPath finds the updated
\* document under the new name and nothing under the old name.
C7_OldNameNotFound ==
  \A p \in Procs :
    ( /\ pc[p] = "done" /\ result[p].status = "ok" /\ call[p].op = "update"
      /\ call[p].content = NoContent
      /\ DOMAIN call[p].patch = {"status", "version"}
      /\ call[p].patch.status # call[p].existing.metadata.status
      /\ EndsWith(call[p].existing.path,
                  NameSuffix(call[p].existing.metadata) \o MARKDOWN_EXTENSION) )
    => /\ findByPath(standards, call[p].updated.path) = call[p].updated
       /\ findByPath(standards, call[p].existing.path) = NoStandard

\* C8: with one call in flight, when a create or update tool call has
\* returned success the snapshot is what readAllStandards yields on the
\* directory as it is, the written document included, and refreshed at this
\* call; when it has returned an error the snapshot is the one the call
\* found and no refresh was made.
C8_SnapshotMatchesDisk ==
  \A p \in Procs : (call[p].op \in {"create", "update"} /\ pc[p] = "done") =>
    IF result[p].status = "ok"
    THEN /\ \E order \in Orderings(DOMAIN fs) : standards = ReadAllIn(fs, order)
         /\ \E i \in 1..Len(standards) : standards[i] = call[p].updated
         /\ \A i \in 1..Len(standards) : FileExists(fs, standards[i].path)
         /\ lastRefresh = clock
    ELSE /\ standards = call[p].standards0
         /\ lastRefresh < clock

\* A renaming update has returned: the old name is gone from the snapshot.
C8_Witness ==
  /\ pc[1] = "done" /\ result[1].status = "ok" /\ call[1].op = "update"
  /\ call[1].oldPath # call[1].newPath
  /\ \E i \in 1..Len(call[1].standards0) : call[1].standards0[i].path = call[1].oldPath
  /\ \A i \in 1..Len(standards) : standards[i].path # call[1].oldPath

\* C9: the snapshot changes only when a refresh that has read every file it
\* enumerated installs its whole collection; what a query reads meanwhile is
\* the previous snapshot.
C9_SnapshotSwappedWhole ==
  [][standards' # standards =>
       \E p \in Procs : /\ pc[p] = "r_swap" /\ pc'[p] = "done"
                        /\ call[p].files = <<>>
                        /\ standards' = call[p].acc]_vars

\* A refresh is half-way through its files and the snapshot is not its
\* partial collection.
C9_Witness ==
  \E p \in Procs : /\ pc[p] = "r_read"
                   /\ call[p].acc # <<>> /\ call[p].files # <<>>
                   /\ standards # call[p].acc

\* C10: when two mutation tool calls have both returned success, the
\* snapshot installed last was read from the directory after both writes:
\* it is what readAllStandards yields on the directory as it is.
C10_LastSnapshotFresh ==
  (\A p \in Procs : pc[p] = "done" /\ result[p].status = "ok")
    => \E order \in Orderings(DOMAIN fs) : standards = ReadAllIn(fs, order)

\* Both calls returned success and a file either wrote is missing from the
\* snapshot.
C10_Witness ==
  /\ \A p \in Procs : pc[p] = "done" /\ result[p].status = "ok"
  /\ \E p \in Procs : /\ FileExists(fs, call[p].updated.path)
                      /\ \A i \in 1..Len(standards) :
                           standards[i].path # call[p].updated.path

\* Both handlers are creating under the same derived name and both found the
\* name free: each passed fs.access before the other wrote.
Racing ==
  /\ \A p \in Procs :
       /\ call[p].op = "create" /\ call[p].newPath # <<>>
       /\ \/ pc[p] \in {"c_write", "r_list", "r_read", "r_swap"}
          \/ pc[p] = "done" /\ result[p].err \in {"", "write"}
  /\ call[1].newPath = call[2].newPath

\* What the two racing creates left: the name holds the document of p.
HoldsDocumentOf(p) == fs[call[p].newPath] = serializeStandard(call[p].updated)

\* C11: when two creates of one derived name have both passed fs.access
\* before either wrote, neither is refused; each write puts its own document
\* under the name, so while one has written and the other has not the file
\* is the first writer's, after both it is the document of exactly one of
\* them, and the two successes share that one file.
C11_LastWriteWins ==
  /\ [](Racing =>
         /\ \A p, q \in Procs :
              (Stored(p) /\ pc[q] = "c_write") => HoldsDocumentOf(p) /\ ~HoldsDocumentOf(q)
         /\ (\A p \in Procs : Stored(p)) =>
              /\ FileExists(fs, call[1].newPath)
              /\ HoldsDocumentOf(1) # HoldsDocumentOf(2))
  /\ [][\A p \in Procs :
          (Racing /\ pc[p] = "c_write" /\ pc'[p] = "r_list") =>
            /\ fs'[call[p].newPath] = serializeStandard(call[p].updated)
            /\ DOMAIN fs' = DOMAIN fs \cup {call[p].newPath}]_vars

\* Both creates reported success; the first wrote first and the file is the
\* second's.
C11_Witness ==
  /\ Racing
  /\ \A p \in Procs : pc[p] = "done" /\ result[p].status = "ok"
  /\ result[1].standard.path = result[2].standard.path
  /\ HoldsDocumentOf(2) /\ ~HoldsDocumentOf(1)
  /\ Cardinality(DOMAIN fs) = Cardinality(DOMAIN call[1].fs0) + 1

\* A call that reported success and brought a name into the store.
Introduced(p) ==
  /\ pc[p] = "done" /\ result[p].status = "ok"
  /\ \/ call[p].op = "create"
     \/ call[p].op = "update" /\ call[p].oldPath # call[p].newPath

PathsDistinct(snapshot) ==
  \A i, j \in 1..Len(snapshot) : i # j => snapshot[i].path # snapshot[j].path

\* C12: under any interleaving of create and update calls, two calls that
\* reported success for documents they brought into the store own different
\* file names, and the paths of every snapshot are pairwise distinct.
C12_NamesDistinct ==
  /\ \A p, q \in Procs :
       (p # q /\ Introduced(p) /\ Introduced(q))
         => result[p].standard.path # result[q].standard.path
  /\ PathsDistinct(standards)

\* The part that holds: snapshots, and the collections refreshes are
\* building, never list a path twice.
C12_SnapshotPathsDistinct ==
  /\ PathsDistinct(standards)
  /\ \A p \in Procs : PathsDistinct(call[p].acc)

\* A create and a renaming update both reported success for one name.
C12_Witness ==
  /\ \A p \in Procs : Introduced(p)
  /\ call[1].op = "create" /\ call[2].op = "update"
  /\ result[1].standard.path = result[2].standard.path

\* The files readStandard can read and parse.
Readable(files) == {f \in DOMAIN files : files[f].kind = "doc"}

\* The snapshot lists exactly the readable files, each once, as parsed.
ExactlyReadable(snapshot, files) ==
  /\ Len(snapshot) = Cardinality(Readable(files))
  /\ \A f \in Readable(files) :
       \E i \in 1..Len(snapshot) : snapshot[i] = parseStandard(files[f], f)

InRefresh(p) == pc[p] \in {"r_list", "r_read", "r_swap"}

\* C13: with one call in flight, a refresh over n files of which k cannot be
\* read never ends in an error: it goes through every file and installs the
\* n-k readable documents, at start-up and after every mutation; part-way it
\* has collected exactly the readable ones among the files it has been
\* through.
C13_RefreshSkipsUnreadable ==
  /\ [](/\ clock = 0 => ExactlyReadable(standards, fs)
        /\ \A p \in Procs :
             /\ pc[p] \in {"r_read", "r_swap"} =>
                  ExactlyReadable(call[p].acc,
                    [f \in DOMAIN fs \ {call[p].files[i] : i \in 1..Len(call[p].files)}
                       |-> fs[f]])
             /\ (call[p].op \in {"create", "update"} /\ pc[p] = "done"
                   /\ result[p].status = "ok") => ExactlyReadable(standards, fs))
  /\ [][\A p \in Procs :
          (InRefresh(p) /\ pc'[p] # pc[p]) =>
             \/ InRefresh(p)'
             \/ pc'[p] = "done" /\ result'[p].status = "ok"]_vars

\* One file that does not parse next to two documents: the snapshot counts 2.
C13_Witness ==
  /\ pc[1] = "done" /\ result[1].status = "ok"
  /\ Cardinality(DOMAIN fs) = 3
  /\ Cardinality(Readable(fs)) = 2
  /\ Len(standards) = 2

\* C14: a derived name fed back in as the title yields the same name, for
\* every validated metadata and every title.
C14_DerivationIdempotent ==
  \A i \in 2..Len(call[1].names) : call[1].names[i] = call[1].names[1]

\* The same for the titles that keep a letter or digit once sanitized: here
\* the code agrees.
C14_HoldsForTitlesWithAWord ==
  sanitizedTitle(call[1].metadata, call[1].filename) # MARKDOWN_EXTENSION
    => C14_DerivationIdempotent

\* A title without letter or digit: the first name has an empty slug, the
\* second has the status for a slug.
C14_Witness ==
  /\ call[1].filename = <<"-", "-", "-">>
  /\ call[1].metadata.type = "standard" /\ call[1].metadata.status = "active"
  /\ Len(call[1].names) = 2
  /\ call[1].names[1] = <<"standard", "-", "backend", "-", "development", "-",
                          "-", "active", ".", "md">>
  /\ call[1].names[2] = <<"standard", "-", "backend", "-", "development", "-",
                          "active", "-", "active", ".", "md">>

\* An update tool call that has stored its document.
UpdateStored(p) == call[p].op = "update" /\ Stored(p)

\* C15: with one update tool call after the other, the version a successful
\* update stores is never below the version the document had, whether it was
\* bumped or given in the patch; the given one is stored as given, and no
\* update gets past validateMetadataUpdate with a version below the stored one.
C15_VersionNeverDecreases ==
  /\ [](\A p \in Procs :
          /\ UpdateStored(p) =>
               /\ ~VersionLess(call[p].updated.metadata.version,
                               call[p].existing.metadata.version)
               /\ call[p].existing = parseStandard(call[p].fs0[call[p].oldPath],
                                                   call[p].oldPath)
               /\ fs[call[p].newPath].metadata.version = call[p].patch.version
          /\ (call[p].op = "update" /\ pc[p] \notin {"idle", "u_read1", "done"}) =>
               ~VersionLess(call[p].patch.version,
                            call[p].fs0[normalizeTargetPath(call[p].path)].metadata.version))
  /\ [][\A p \in Procs :
          (pc[p] = "u_read1" /\ pc'[p] = "u_read2" /\ "version" \in DOMAIN call[p].patch)
            => call'[p].patch.version = call[p].patch.version]_vars

\* A second update has stored the version the first one left: it was given
\* in the patch, equal to the stored one.
C15_Witness ==
  /\ UpdateStored(1) /\ pc[1] = "done"
  /\ call[1].existing.metadata.version = <<2, 0, 0>>
  /\ call[1].updated.metadata.version = <<2, 0, 0>>
  /\ fs[call[1].newPath].metadata.version = <<2, 0, 0>>

\* A create that has written its document.
CreateStored(p) == call[p].op = "create" /\ Stored(p)

\* C16: the document createStandard writes has version 1.0.0 and created
\* equal to updated; a later successful update leaves created as it was and
\* stores an updated that is not before it.
C16_CreatedAtOneInstant ==
  \A p \in Procs :
    /\ CreateStored(p) =>
         /\ fs[call[p].newPath].metadata.version = <<1, 0, 0>>
         /\ fs[call[p].newPath].metadata.created = fs[call[p].newPath].metadata.updated
    /\ UpdateStored(p) =>
         /\ call[p].updated.metadata.created = call[p].existing.metadata.created
         /\ call[p].updated.metadata.updated >= call[p].updated.metadata.created

\* The same but for the two instants of a create being one: version 1.0.0,
\* updated not before created, created kept by updates. Here the code agrees.
C16_HoldsApartFromTheInstant ==
  \A p \in Procs :
    /\ CreateStored(p) =>
         /\ call[p].updated.metadata.version = <<1, 0, 0>>
         /\ call[p].updated.metadata.updated >= call[p].updated.metadata.created
    /\ UpdateStored(p) =>
         /\ call[p].updated.metadata.created = call[p].existing.metadata.created
         /\ call[p].updated.metadata.updated >= call[p].updated.metadata.created

\* A document was created across a tick of the clock.
C16_Witness ==
  /\ CreateStored(1) /\ pc[1] = "done"
  /\ fs[call[1].newPath].metadata.updated = fs[call[1].newPath].metadata.created + 1

\* C17: normalizing a normalized path changes nothing, for the storage
\* normalizer and for the index normalizer, whatever the path.
C17_NormalizationIdempotent ==
  /\ \A i \in 2..Len(call[1].targetPaths) : call[1].targetPaths[i] = call[1].targetPaths[1]
  /\ \A i \in 2..Len(call[1].indexPaths) : call[1].indexPaths[i] = call[1].indexPaths[1]

\* The same for the paths that do not name a standards directory inside the
\* standards directory: here the code agrees.
C17_HoldsWithoutNestedPrefix ==
  (call[1].path \notin
     { <<"standards", "/", "standards", "/", "api", ".", "md">>,
       <<"/", "srv", "/", "standards", "/", "standards", "/", "api", ".", "md">> })
    => C17_NormalizationIdempotent

\* Two prefixes: each normalization takes one off.
C17_Witness ==
  /\ call[1].path = <<"standards", "/", "standards", "/", "api", ".", "md">>
  /\ call[1].targetPaths = << <<"standards", "/", "api", ".", "md">>, <<"api", ".", "md">> >>
  /\ call[1].indexPaths = << <<"standards", "/", "api", ".", "md">>, <<"api", ".", "md">> >>

\* What the claim asks of a document for the criteria given.
Satisfies(d, criteria) ==
  /\ ("type" \in DOMAIN criteria /\ criteria.type # "") =>
       normalizeTypeName(d.metadata.type) = normalizeTypeName(criteria.type)
  /\ \A k \in {"tier", "process", "status"} :
       (k \in DOMAIN criteria /\ criteria[k] # "") => d.metadata[k] = criteria[k]
  /\ "tags" \in DOMAIN criteria =>
       {criteria.tags[j] : j \in 1..Len(criteria.tags)}
         \subseteq {d.metadata.tags[j] : j \in 1..Len(d.metadata.tags)}

\* r lists, in the order of the snapshot, the documents at the positions in `kept`.
IsSelection(r, snapshot, kept) ==
  /\ Len(r) = Cardinality(kept)
  /\ \A i \in 1..Len(r) :
       \E n \in kept : r[i] = snapshot[n] /\ Cardinality({m \in kept : m <= n}) = i

\* C18: filter returns the documents of the snapshot that satisfy every
\* criterion given (all requested tags among the document's), each once and
\* in snapshot order; with no criterion or an empty tag list it returns all
\* that the other criteria allow; a document holding one of two requested
\* tags is not returned.
C18_FilterExact ==
  (call[1].op = "filter" /\ pc[1] = "done") =>
    /\ IsSelection(result[1].value, standards,
                   {n \in 1..Len(standards) : Satisfies(standards[n], call[1].options)})
    /\ (DOMAIN call[1].options = {}) => result[1].value = standards
    /\ \A i \in 1..Len(result[1].value) :
         ("tags" \in DOMAIN call[1].options /\ call[1].options.tags = <<"security", "api">>)
           => result[1].value[i].metadata.tags = <<"security", "api">>

\* Both tags were requested of a snapshot holding a document with both and
\* two with one each: only the first is returned.
C18_Witness ==
  /\ call[1].op = "filter" /\ pc[1] = "done"
  /\ call[1].options = [type |-> "", tier |-> "", status |-> "", tags |-> <<"security", "api">>]
  /\ Len(standards) = 3
  /\ \E i \in 1..3 : standards[i].metadata.tags = <<"api">>
  /\ \E i \in 1..3 : standards[i].metadata.tags = <<"security">>
  /\ Len(result[1].value) = 1
  /\ result[1].value[1].metadata.tags = <<"security", "api">>

\* The legacy spelling of each canonical type: the plural, and for
\* tech-stack the spelling normalizeTypeName lists.
LegacySpelling(t) ==
  CASE t = "standard" -> "standards"
    [] t = "principle" -> "principles"
    [] t = "practice" -> "practices"
    [] t = "tech-stack" -> "technical-stack"
    [] t = "process" -> "processes"

\* A filter by a legacy spelling returned what the filter by the canonical
\* spelling returns.
LegacyFilterAgrees(types) ==
  \A t \in types :
    (call[1].op = "filter" /\ pc[1] = "done" /\ "type" \in DOMAIN call[1].options
       /\ call[1].options.type = LegacySpelling(t))
      => result[1].value = filter(standards, [call[1].options EXCEPT !.type = t])

\* A filter by a canonical type returned the documents stored under a legacy
\* spelling of it too.
LegacyStoredMatched ==
  (call[1].op = "filter" /\ pc[1] = "done" /\ "type" \in DOMAIN call[1].options
     /\ call[1].options.type \in CanonicalTypes)
    => \A n \in 1..Len(standards) :
         ( /\ standards[n].metadata.type = LegacySpelling(call[1].options.type)
           /\ Satisfies(standards[n], [call[1].options EXCEPT !.type = ""]) )
         => \E i \in 1..Len(result[1].value) : result[1].value[i] = standards[n]

\* C19: for each canonical type a filter by its legacy spelling returns what
\* a filter by the canonical spelling returns; a document stored under a
\* legacy spelling is matched by the canonical one, and grouped under the
\* canonical type like the documents stored with it.
C19_LegacyIndistinguishable ==
  /\ LegacyFilterAgrees(CanonicalTypes)
  /\ LegacyStoredMatched
  /\ (call[1].op = "group" /\ pc[1] = "done") =>
       \A n \in 1..Len(standards) :
         Satisfies(standards[n], call[1].options) =>
           /\ <<normalizeTypeName(standards[n].metadata.type), standards[n].metadata.tier,
                standards[n].metadata.process>> \in DOMAIN result[1].value
           /\ \E i \in 1..Len(result[1].value[
                             <<normalizeTypeName(standards[n].metadata.type),
                               standards[n].metadata.tier, standards[n].metadata.process>>]) :
                result[1].value[<<normalizeTypeName(standards[n].metadata.type),
                                  standards[n].metadata.tier,
                                  standards[n].metadata.process>>][i].path
                  = standards[n].path

\* The part that holds: filtering, for the spellings normalizeTypeName lists.
C19_HoldsForFilterOfListedSpellings ==
  /\ LegacyFilterAgrees({"standard", "principle", "practice", "tech-stack"})
  /\ LegacyStoredMatched

\* Two documents of one type, tier and process, one stored as "standards":
\* the hierarchical index has them in two groups.
C19_Witness ==
  /\ call[1].op = "group" /\ pc[1] = "done"
  /\ DOMAIN call[1].options = {}
  /\ <<"standard", "backend", "development">> \in DOMAIN result[1].value
  /\ <<"standards", "backend", "development">> \in DOMAIN result[1].value
  /\ Len(result[1].value[<<"standard", "backend", "development">>]) = 1

\* The score the claim gives a document for a lowercased query.
ClaimedScore(d, q) ==
  Cardinality({i \in 1..Len(d.content) :
                 i + Len(q) - 1 <= Len(d.content)
                 /\ \A k \in 1..Len(q) : LowerWord(d.content[i + k - 1]) = q[k]})
  + (IF Includes(toLowerCase(Chars(d.metadata.type) \o <<" ">> \o Chars(d.metadata.tier)
                             \o <<" ">> \o Chars(d.metadata.process) \o <<" ">>
                             \o JoinSpace(d.metadata.tags) \o <<" ">>
                             \o Chars(d.metadata.author)), q)
     THEN 2 ELSE 0)
  + (IF Includes(toLowerCase(d.path), q) THEN 1 ELSE 0)

\* C20: for a search, every document that passes the filter and whose score
\* (occurrences of the query in the body, without regard to case, plus 2 if
\* it occurs in the joined metadata, plus 1 if it occurs in the path) is
\* above 0 has one entry in `results`, with that score; the others have none.
C20_ScoreFormula ==
  (call[1].op = "search" /\ pc[1] = "done") =>
    /\ IsSelection([i \in 1..Len(call[1].results) |-> call[1].results[i].standard],
                   standards,
                   {n \in 1..Len(standards) :
                      /\ Satisfies(standards[n], call[1].options)
                      /\ ClaimedScore(standards[n], toLowerCase(call[1].query)) > 0})
    /\ \A i \in 1..Len(call[1].results) :
         call[1].results[i].score
           = ClaimedScore(call[1].results[i].standard, toLowerCase(call[1].query))
    /\ \A i \in 1..Len(result[1].value) :
         \E j \in 1..Len(call[1].results) : result[1].value[i] = call[1].results[j]

\* A search for "REST": one document scores 2 for its body, in either case,
\* another 3 for its tag and its path, a third is left out.
C20_Witness ==
  /\ call[1].op = "search" /\ pc[1] = "done"
  /\ call[1].query = <<"REST">> /\ DOMAIN call[1].options = {}
  /\ Len(standards) = 3
  /\ Len(call[1].results) = 2
  /\ \E i \in 1..2 : call[1].results[i].score = 2 /\ Len(call[1].results[i].matches) = 2
  /\ \E i \in 1..2 : call[1].results[i].score = 3 /\ call[1].results[i].matches = <<>>

\* The query is the type and a tag of one document: the metadata count once.
C20_MetadataOnceWitness ==
  /\ call[1].op = "search" /\ pc[1] = "done"
  /\ call[1].query = <<"process">>
  /\ \E i \in 1..Len(call[1].results) :
       /\ call[1].results[i].standard.metadata.type = "process"
       /\ hasTag(call[1].results[i].standard, "process")
       /\ call[1].results[i].score = 3

\* ------------------------------------------------------------------ C21
\* Where an entry of the sorted list stood in `results`, the list in filter
\* order; the documents of a snapshot differ, so it stood in one place.
PlaceIn(results, entry) == CHOOSE k \in 1..Len(results) : results[k] = entry

\* The smaller of two numbers.
Least(a, b) == IF a < b THEN a ELSE b

\* The entries of `results` that are not in r.
LeftOut(results, r) ==
  {k \in 1..Len(results) : \A i \in 1..Len(r) : r[i] # results[k]}

\* C21: what search returns is made of matching documents, min(limit, number
\* of matching documents) of them, in descending order of score, documents of
\* equal score in filter order, and no matching document left out has a
\* higher score than one returned.
C21_SortedAndCut ==
  (pc[1] = "done" /\ call[1].op = "search") =>
    /\ Len(result[1].value) = Least(call[1].limit, Len(call[1].results))
    /\ \A i \in 1..Len(result[1].value) :
         \E k \in 1..Len(call[1].results) : call[1].results[k] = result[1].value[i]
    /\ \A i, j \in 1..Len(result[1].value) :
         i < j =>
           /\ result[1].value[i].score >= result[1].value[j].score
           /\ result[1].value[i].score = result[1].value[j].score =>
                PlaceIn(call[1].results, result[1].value[i])
                  < PlaceIn(call[1].results, result[1].value[j])
    /\ \A i \in 1..Len(result[1].value) :
         \A k \in LeftOut(call[1].results, result[1].value) :
           /\ result[1].value[i].score >= call[1].results[k].score
           /\ result[1].value[i].score = call[1].results[k].score =>
                PlaceIn(call[1].results, result[1].value[i]) < k

\* A search cut to one entry that returns the second matching document,
\* whose score is the higher one.
C21_Witness ==
  /\ pc[1] = "done" /\ call[1].op = "search"
  /\ call[1].limit = 1
  /\ Len(call[1].results) >= 2
  /\ Len(result[1].value) = 1
  /\ result[1].value[1] = call[1].results[2]
  /\ call[1].results[1].score < call[1].results[2].score

\* A search whose matching documents all have one score: two are returned
\* in filter order and the third is left out.
C21_TieWitness ==
  /\ pc[1] = "done" /\ call[1].op = "search"
  /\ call[1].limit = 2
  /\ Len(call[1].results) = 3
  /\ \A k \in 1..3 : call[1].results[k].score = call[1].results[1].score
  /\ result[1].value = Take(call[1].results, 2)

\* ------------------------------------------------------------------ C22
\* The documents at the places S of the snapshot: the first of them, or
\* none.
FirstAt(snapshot, S) ==
  IF S = {} THEN NoStandard ELSE snapshot[CHOOSE i \in S : \A j \in S : i <= j]

\* Places of the snapshot whose stored path is the identifier.
PathEqual(snapshot, n) == {i \in 1..Len(snapshot) : snapshot[i].path = n}

\* Places whose base name is the base name of the identifier.
BaseEqual(snapshot, n) ==
  {i \in 1..Len(snapshot) : BaseName(snapshot[i].path) = BaseName(n)}

\* Places whose base name holds the base name of the identifier.
BaseHolds(snapshot, n) ==
  {i \in 1..Len(snapshot) : Includes(BaseName(snapshot[i].path), BaseName(n))}

\* The three stages one after the other.
Staged(snapshot, n) ==
  IF PathEqual(snapshot, n) # {} THEN FirstAt(snapshot, PathEqual(snapshot, n))
  ELSE IF BaseEqual(snapshot, n) # {} THEN FirstAt(snapshot, BaseEqual(snapshot, n))
  ELSE FirstAt(snapshot, BaseHolds(snapshot, n))

\* C22: findByPath returns the document whose stored path is the normalized
\* identifier if there is one; otherwise the first document with the same
\* base name if there is one; and the first document whose base name holds
\* the identifier's only when no document has the same base name.
C22_ThreeOrderedStages ==
  (pc[1] = "done" /\ call[1].op = "find" /\ normalizeIndexPath(call[1].path) # <<>>) =>
    result[1].value = Staged(standards, normalizeIndexPath(call[1].path))

\* What does hold: the stored path first, and otherwise the first document
\* whose base name is, or holds, the identifier's base name.
C22_HoldsWithStagesTwoAndThreeMerged ==
  (pc[1] = "done" /\ call[1].op = "find") =>
    result[1].value =
      IF normalizeIndexPath(call[1].path) = <<>> THEN NoStandard
      ELSE IF PathEqual(standards, normalizeIndexPath(call[1].path)) # {}
        THEN FirstAt(standards, PathEqual(standards, normalizeIndexPath(call[1].path)))
      ELSE FirstAt(standards, BaseHolds(standards, normalizeIndexPath(call[1].path)))

\* A lookup that no stored path answers, in a snapshot where one document has
\* the base name asked for and an earlier one only holds it in its own: the
\* earlier one is returned.
C22_Witness ==
  /\ pc[1] = "done" /\ call[1].op = "find"
  /\ PathEqual(standards, normalizeIndexPath(call[1].path)) = {}
  /\ BaseEqual(standards, normalizeIndexPath(call[1].path)) # {}
  /\ result[1].value # NoStandard
  /\ BaseName(result[1].value.path) # BaseName(normalizeIndexPath(call[1].path))

\* ------------------------------------------------------------------ C23
\* Every entry of the index: the group it is in and its place there.
EntriesIn(index) ==
  UNION {{<<key, j>> : j \in 1..Len(index[key])} : key \in DOMAIN index}

\* Where the index holds the entry of a document.
PlacesOf(index, standard) ==
  {e \in EntriesIn(index) : index[e[1]][e[2]] = pathAndMetadata(standard)}

\* The index holds every document of `filtered` once, in the group of its
\* own type, tier and process, the documents of one group in the order of
\* `filtered`, and nothing else.
Partitions(index, filtered) ==
  /\ \A key \in DOMAIN index : Len(index[key]) > 0
  /\ Cardinality(EntriesIn(index)) = Len(filtered)
  /\ \A i \in 1..Len(filtered) :
       /\ Cardinality(PlacesOf(index, filtered[i])) = 1
       /\ \A e \in PlacesOf(index, filtered[i]) :
            e[1] = <<filtered[i].metadata.type, filtered[i].metadata.tier,
                     filtered[i].metadata.process>>
  /\ \A i, j \in 1..Len(filtered) :
       i < j =>
         \A e \in PlacesOf(index, filtered[i]), g \in PlacesOf(index, filtered[j]) :
           e[1] = g[1] => e[2] < g[2]

\* C23: buildHierarchicalIndex(criteria) partitions filter(criteria) into
\* non-empty groups by type, tier and process, each in snapshot order, with as
\* many entries in all as filter(criteria) has documents; getMetadataList
\* (criteria) has that length too, one {path, metadata} per filtered document.
C23_GroupsPartitionFilter ==
  /\ (pc[1] = "done" /\ call[1].op = "group") =>
       /\ Partitions(result[1].value, filter(standards, call[1].options))
       /\ Cardinality(EntriesIn(result[1].value))
            = Len(getMetadataList(standards, call[1].options))
  /\ (pc[1] = "done" /\ call[1].op = "metadata") =>
       /\ Len(result[1].value) = Len(filter(standards, call[1].options))
       /\ \A i \in 1..Len(result[1].value) :
            result[1].value[i]
              = [path |-> filter(standards, call[1].options)[i].path,
                 metadata |-> filter(standards, call[1].options)[i].metadata]

\* An index of two groups, one of them holding two documents, built from a
\* snapshot of three documents that all pass the criteria.
C23_Witness ==
  /\ pc[1] = "done" /\ call[1].op = "group"
  /\ Cardinality(DOMAIN result[1].value) = 2
  /\ \E key \in DOMAIN result[1].value : Len(result[1].value[key]) = 2
  /\ Len(standards) = 3
  /\ Len(filter(standards, call[1].options)) = 3

\* A metadata list shorter than the snapshot.
C23_ListWitness ==
  /\ pc[1] = "done" /\ call[1].op = "metadata"
  /\ Len(result[1].value) = 2
  /\ Len(standards) = 3

\* ------------------------------------------------------------------ C24
ReadOperations == {"filter", "search", "group", "metadata", "find", "stats"}

\* Some caller's read is answered in this step.
ReadAnswered ==
  \E p \in Procs :
    /\ pc[p] = "idle" /\ pc'[p] = "done"
    /\ call'[p].op \in ReadOperations

\* C24: a read (filter, search, findByPath, buildHierarchicalIndex,
\* getMetadataList, getIndexStats, and the list, get, search and get-metadata
\* tools built on them) leaves the snapshot, its order, lastRefresh and the
\* files as they were, and the same read issued again is answered the same.
C24_ReadsChangeNothing ==
  /\ []((pc[1] = "done" /\ pc[2] = "done" /\ call[1] = call[2]) => result[1] = result[2])
  /\ [][ReadAnswered => UNCHANGED <<standards, lastRefresh, fs>>]_vars

\* A search that found something has been issued a second time and both
\* answers are held.
C24_Witness ==
  /\ pc[1] = "done" /\ pc[2] = "done"
  /\ call[1].op = "search" /\ call[2] = call[1]
  /\ Len(result[1].value) = 2
  /\ Len(standards) = 3

\* ------------------------------------------------------------------ C25
\* The segments of the stored name, its extension taken off.
NameSegments(c) == SplitHyphen(RemoveExtension(Basename(c.existing.path)))

\* The code's two tests: the last segment, or the fourth, is the status.
NeitherLayoutMatches(c) ==
  ~ /\ Len(NameSegments(c)) >= 5
    /\ \/ NameSegments(c)[Len(NameSegments(c))] = <<c.existing.metadata.status>>
       \/ NameSegments(c)[4] = <<c.existing.metadata.status>>

\* {newtype}-{newtier}-{newprocess}-{slug}-{newstatus}.md
NameAround(metadata, slug) ==
  NamePrefix(metadata) \o slug \o NameSuffix(metadata) \o MARKDOWN_EXTENSION

\* The slug is recovered and the new name built around it.
SlugKept(c, position) ==
  /\ position \in {"u_name", "done"} /\ c.layout \in {"status-last", "status-fourth"}
       => c.titleBase = c.slug
  /\ position = "done" /\ c.layout \in {"status-last", "status-fourth"}
       => c.newPath = NameAround(c.metadata, c.slug)
  /\ position \in {"u_name", "done"} /\ c.layout = "no-status" /\ NeitherLayoutMatches(c)
       => /\ Len(NameSegments(c)) > 3
          /\ c.titleBase = JoinHyphen(SubSeq(NameSegments(c), 4, Len(NameSegments(c))))

\* C25: from a name with the current status last and from a name with it in
\* fourth place update recovers the same slug and names the document
\* {newtype}-{newtier}-{newprocess}-{slug}-{newstatus}.md; from a name that
\* fits neither layout the slug is what follows the first three segments.
C25_SlugRecoveredInBothLayouts == SlugKept(call[1], pc[1])

\* A word that is a status.
IsStatusWord(segment) == \E status \in ValidStatuses : segment = <<status>>

\* What does hold: the same, for the types written without a hyphen and the
\* slugs whose last word is not a status.
C25_HoldsForPlainTypesAndSlugs ==
  ( /\ Len(Chars(call[1].existing.metadata.type)) = 1
    /\ pc[1] = "done" => Len(Chars(call[1].metadata.type)) = 1
    /\ ~IsStatusWord(SplitHyphen(call[1].slug)[Len(SplitHyphen(call[1].slug))]) )
  => SlugKept(call[1], pc[1])

\* The active document standard-backend-development-first-draft-active.md is
\* made a draft: its slug is recovered whole, and the new name has lost the
\* slug's last word.
C25_Witness ==
  /\ pc[1] = "done"
  /\ call[1].layout = "status-last"
  /\ call[1].existing.metadata.type = "standard"
  /\ call[1].existing.metadata.status = "active"
  /\ call[1].slug = <<"first", "-", "draft">>
  /\ call[1].titleBase = call[1].slug
  /\ call[1].metadata.status = "draft"
  /\ call[1].newPath = NameAround(call[1].metadata, <<"first">>)

\* ------------------------------------------------------------------ C26
\* Lower case, every run of separators one hyphen, no hyphen at either end.
Kebab(s) == TrimHyphens(CollapseSeparators(toLowerCase(s)))

\* The slug the derived name is said to hold.
ClaimedSlug(c) ==
  IF c.filename # <<>> THEN Kebab(c.filename)
  ELSE IF Len(c.metadata.tags) > 0 THEN Kebab(Chars(c.metadata.tags[1]))
  ELSE IF c.metadata.tier # "" THEN Kebab(Chars(c.metadata.tier))
  ELSE Kebab(Chars(c.metadata.type))

\* Lower-case words and single hyphens, then the extension.
WellFormedName(name) ==
  /\ EndsWith(name, MARKDOWN_EXTENSION)
  /\ \A i \in 1..(Len(name) - Len(MARKDOWN_EXTENSION)) :
       /\ name[i] \in Separators => name[i] = "-"
       /\ name[i] = LowerWord(name[i])
       /\ (i > 1 /\ name[i] = "-") => name[i - 1] # "-"

\* C26: the slug in a derived name is the title in lower case with every run
\* of other characters made one hyphen and none left at the ends (the first
\* tag, else the tier, else the type, when there is no title); the name is
\* made of [a-z0-9-] and the extension, with no two hyphens in a row.
C26_SlugIsKebabTitle ==
  Len(call[1].names) >= 1 =>
    /\ call[1].names[1]
         = NamePrefix(call[1].metadata) \o ClaimedSlug(call[1])
             \o NameSuffix(call[1].metadata) \o MARKDOWN_EXTENSION
    /\ WellFormedName(call[1].names[1])

\* The title has a letter or a digit.
HasWord(title) == \E i \in 1..Len(title) : title[i] \notin Separators

\* What does hold: a name made of [a-z0-9-] and the extension, without two
\* hyphens in a row, when the title (or there being none) leaves a word; and
\* the slug claimed when, besides, the title has no directory, no extension
\* and neither the prefix nor the status of the name at its ends.
C26_HoldsForTitlesThatLeaveAWord ==
  (Len(call[1].names) >= 1
     /\ (call[1].filename = <<>>
           \/ HasWord(StripMarkdownExtension(Basename(StripStandardsPrefix(
                                                       call[1].filename))))))
  => /\ WellFormedName(call[1].names[1])
     /\ ( /\ \A i \in 1..Len(call[1].filename) : call[1].filename[i] # "/"
          /\ ~EndsWith(toLowerCase(call[1].filename), MARKDOWN_EXTENSION)
          /\ ~StartsWith(Kebab(call[1].filename), NamePrefix(call[1].metadata))
          /\ ~EndsWith(Kebab(call[1].filename), NameSuffix(call[1].metadata)) )
         => call[1].names[1]
              = NamePrefix(call[1].metadata) \o ClaimedSlug(call[1])
                  \o NameSuffix(call[1].metadata) \o MARKDOWN_EXTENSION

\* A name derived from the title '---': nothing is left of the title and the
\* name has two hyphens in a row.
C26_Witness ==
  /\ Len(call[1].names) >= 1
  /\ call[1].filename = <<"-", "-", "-">>
  /\ call[1].names[1]
       = NamePrefix(call[1].metadata) \o NameSuffix(call[1].metadata) \o MARKDOWN_EXTENSION
  /\ \E i \in 2..Len(call[1].names[1]) :
       call[1].names[1][i] = "-" /\ call[1].names[1][i - 1] = "-"

\* The kebab rule at work: ' REST_ api\\' becomes the slug rest-api.
C26_KebabWitness ==
  /\ Len(call[1].names) >= 1
  /\ call[1].filename = <<" ", "REST", "_", " ", "api", "\\">>
  /\ call[1].names[1]
       = NamePrefix(call[1].metadata) \o <<"rest", "-", "api">>
           \o NameSuffix(call[1].metadata) \o MARKDOWN_EXTENSION

\* ------------------------------------------------------------------ C27
\* C27: looked up by its own stored path, every document of the snapshot is
\* returned itself, also when an earlier document's base name holds its own.
C27_FoundByOwnPath ==
  (pc[1] = "done" /\ call[1].op = "find") =>
    \A i \in 1..Len(standards) :
      standards[i].path = call[1].path => result[1].value = standards[i]

\* The second document of the snapshot is looked up by its path and
\* returned, the base name of the first one holding its base name.
C27_Witness ==
  /\ pc[1] = "done" /\ call[1].op = "find"
  /\ Len(standards) >= 2
  /\ call[1].path = standards[2].path
  /\ Includes(BaseName(standards[1].path), BaseName(standards[2].path))
  /\ result[1].value = standards[2]

\* ------------------------------------------------------------------ C28
\* search is under way.
Searching == pc[1] \in {"s_next", "s_scan", "s_score", "s_sort"}

\* C28: search, once called, returns, whatever the query, the empty one
\* included: the scanning loop reaches the end of every body.
C28_SearchTerminates == Searching ~> (pc[1] = "done")

\* What does hold: a search for a query that is not empty returns, and with
\* what search is defined to return.
C28_HoldsForNonEmptyQueries ==
  /\ (Searching /\ call[1].query # <<>>) ~> (pc[1] = "done")
  /\ [](pc[1] = "done" /\ call[1].query # <<>> =>
          result[1].value
            = search(standards, call[1].query, call[1].options, call[1].limit))

\* The loop on an empty query: it has gone through more places than the
\* body has, stands at the end of the body, and the next indexOf returns the
\* same place again.
C28_Witness ==
  /\ pc[1] = "s_scan"
  /\ call[1].query = <<>>
  /\ call[1].index = Len(call[1].filtered[call[1].position].content)
  /\ call[1].score = MaxMatches
  /\ indexOf(toLowerCase(call[1].filtered[call[1].position].content), <<>>,
             call[1].index + 1) = call[1].index

\* ------------------------------------------------------------------ C29
\* The update of p has returned its document.
UpdateSucceeded(p) ==
  /\ pc[p] = "done" /\ call[p].op = "update"
  /\ result[p].status = "ok"

\* The update of p changes the status, and with it the name.
RenamingUpdate(p) ==
  /\ "status" \in DOMAIN call[p].patch
  /\ call[p].patch.status # call[p].existing.metadata.status
  /\ call[p].newPath # call[p].oldPath

\* The update of p changes the content and nothing the name is made of.
ContentUpdate(p) ==
  /\ call[p].content # NoContent
  /\ DOMAIN call[p].patch \subseteq {"version"}

\* Two updates of the one document of the store have both succeeded, one
\* renaming it, the other changing its content.
BothUpdated(p, q) ==
  /\ p # q
  /\ UpdateSucceeded(p) /\ UpdateSucceeded(q)
  /\ Cardinality(DOMAIN call[p].fs0) = 1
  /\ call[p].oldPath = call[q].oldPath
  /\ RenamingUpdate(p) /\ ContentUpdate(q)

\* C29: however two update calls on one document interleave, one changing
\* the status and the other the content, once both have succeeded the store
\* holds one file for the document and the two have been given different
\* versions.
C29_OneFileTwoVersions ==
  \A p, q \in Procs :
    BothUpdated(p, q) =>
      /\ Cardinality(DOMAIN fs) = 1
      /\ result[p].standard.metadata.version # result[q].standard.metadata.version

\* The update of q began when the document of p was already in the store.
BeganAfter(q, p) ==
  /\ FileExists(call[q].fs0, call[p].newPath)
  /\ call[q].fs0[call[p].newPath] = serializeStandard(call[p].updated)

\* What does hold: the same, when one update has stored its document before
\* the other begins.
C29_HoldsOneAfterTheOther ==
  \A p, q \in Procs :
    ( /\ p # q
      /\ UpdateSucceeded(p) /\ UpdateSucceeded(q)
      /\ Cardinality(DOMAIN call[p].fs0) = 1
      /\ BeganAfter(q, p)
      /\ \/ RenamingUpdate(p) /\ ContentUpdate(q)
         \/ ContentUpdate(p) /\ RenamingUpdate(q) )
    => /\ Cardinality(DOMAIN fs) = 1
       /\ result[p].standard.metadata.version # result[q].standard.metadata.version

\* One update after the other: first the content, then the status.
C29_OneAfterTheOtherWitness ==
  /\ UpdateSucceeded(1) /\ UpdateSucceeded(2)
  /\ BeganAfter(2, 1)
  /\ ContentUpdate(1) /\ RenamingUpdate(2)

\* Both updates have succeeded and the store holds the document twice: under
\* the new name as the renaming update left it, and under the old name,
\* where the content update has written it again.
C29_Witness ==
  \E p, q \in Procs :
    /\ BothUpdated(p, q)
    /\ DOMAIN fs = {call[p].oldPath, call[p].newPath}
    /\ fs[call[p].newPath] = serializeStandard(call[p].updated)
    /\ fs[call[q].oldPath] = serializeStandard(call[q].updated)

\* Both updates have succeeded with one and the same version.
C29_SameVersionWitness ==
  \E p, q \in Procs :
    /\ BothUpdated(p, q)
    /\ result[p].standard.metadata.version = result[q].standard.metadata.version

====
